---- MODULE Spec2Model ----
(***************************************************************************)
(* Model of the realtime hub of clock-synchronization-world:               *)
(*   server.ts        (src/unnamed/part_003)  hub / session layer          *)
(*   lib/roomManager  (src/unnamed/part_002)  room manager                 *)
(*   lib/redis        (src/unnamed/part_001)  KV helpers                   *)
(*   lib/rateLimiter  (src/lib/rateLimiter.ts)                             *)
(*                                                                         *)
(* Every handler is an async function.  A handler invocation is a task; it *)
(* runs synchronously up to its next `await`, where it is suspended.  In   *)
(* the KV-connected mode every await is a Redis command on the instance's  *)
(* single connection: commands are applied, and their replies delivered,   *)
(* in issue order, so the suspended tasks of one instance resume FIFO      *)
(* (pend[i]).  A task at pc P has issued command P; resuming it applies P  *)
(* to the store and runs the code after the await up to the next command.  *)
(* In the standalone mode the room-manager call itself runs synchronously  *)
(* at the call and the await only yields.                                  *)
(***************************************************************************)
EXTENDS Integers, Sequences, FiniteSets, TLC

VARIABLES now, redisUp, kv, loc, sock, pend, hub, obs, budget

vars == <<now, redisUp, kv, loc, sock, pend, hub, obs, budget>>

(***************************************************************************)
(* Bounds of the model                                                     *)
(***************************************************************************)
\* Inbound messages, timer firings and clock steps of one behaviour.
MaxEvents == 3
\* checkRateLimit calls and clock steps of one behaviour of the rate
\* limiter specification.
MaxCalls == 13
\* Handler invocations in flight at the same time.
MaxInflight == 2

\* Timer firings and time steps in the specification of the video tick
\* around the end of the video.
MaxTicks == 5

\* Calls and clock steps in the specification of checkConnectionLimit.
MaxAttempts == 6

Sessions == {"u1", "u2"}
Instances == {"i1", "i2"}
\* socket.handshake.address of the connections.
Addresses == {"ip1", "ip2"}
DEFAULT_ROOM_ID == "main-lobby"
Rooms == {DEFAULT_ROOM_ID, "lobby1"}
Null == "null"

\* Which hub instance owns a session.  Standalone hubs share nothing, so
\* the standalone mode is one instance holding every session.
InstOf(s, up) == IF up /\ s = "u2" THEN "i2" ELSE "i1"

None == <<>>
Some(x) == <<x>>
IsSome(o) == Len(o) = 1
The(o) == o[1]

(***************************************************************************)
(* Program constants                                                       *)
(***************************************************************************)
ReapAgeMs == 60000
\* One clock unit of the model, in ms.
TickMs == ReapAgeMs + 1
DefaultMaxUsers == 10000
LobbyMaxUsers == 100000
DefaultDuration == 596
\* ROOM_TTL (roomManager L72), in seconds, and in ms.
ROOM_TTL == 86400
RoomTtlMs == ROOM_TTL * 1000
\* The connection gate: the hub's threshold (server.ts L229) and the
\* window of checkConnectionLimit (rateLimiter.ts L307).
ConnLimit == 20
ConnWindowMs == 60000
\* The video tick period (server.ts L604), the clock unit of the message
\* specifications.
StepMs == 500

LIMITS ==
  [cursor       |-> [max |-> 20, windowMs |-> 1000],
   reaction     |-> [max |-> 5,  windowMs |-> 1000],
   sync         |-> [max |-> 10, windowMs |-> 1000],
   message      |-> [max |-> 30, windowMs |-> 1000],
   roomJoin     |-> [max |-> 5,  windowMs |-> 10000],
   videoControl |-> [max |-> 10, windowMs |-> 1000]]

Actions == {"cursor", "reaction", "sync", "message", "roomJoin", "videoControl"}

(***************************************************************************)
(* The world a task step reads and writes; pend and budget are the         *)
(* scheduler's.                                                            *)
(***************************************************************************)
World ==
  [now |-> now, up |-> redisUp, kv |-> kv, loc |-> loc, sock |-> sock,
   hub |-> hub, obs |-> obs]

Cont(w, t) == [w |-> w, t |-> Some(t)]
Fin(w) == [w |-> w, t |-> None]
At(t, pc) == [t EXCEPT !.pc = pc]

NewTask(kind, sid, room, inst) ==
  [kind |-> kind, sid |-> sid, inst |-> inst, pc |-> "start", room |-> room,
   lroom |-> Null, rd |-> None, users |-> {}, todo |-> <<>>, n |-> 0,
   vs |-> None, cur |-> None, ref |-> 0, ph |-> 0, arg |-> <<>>,
   seen |-> None, fresh |-> TRUE]

(***************************************************************************)
(* lib/roomManager: data                                                   *)
(***************************************************************************)
\* createRoom L99-106: the record written for a room.
RoomData(roomId, creatorId, name, maxUsers, t) ==
  [id |-> roomId, name |-> name, createdBy |-> creatorId, createdAt |-> t,
   maxUsers |-> maxUsers]

\* createRoom as joinRoom calls it: no options, so the defaults apply.
JoinRoomData(roomId, creatorId, t) ==
  RoomData(roomId, creatorId, "Room " \o roomId, DefaultMaxUsers, t)

\* ensureDefaultRoom's createRoom.
LobbyRoomData(t) ==
  RoomData(DEFAULT_ROOM_ID, "system", "Main Lobby", LobbyMaxUsers, t)

\* getRoom / getAllRooms / getRoomUsers / getRoomUserCount as reads of the
\* store of the current mode.
\* The key room:{id}:meta is written with EX ROOM_TTL (L112): the store
\* answers a GET with null from kv.metaExp[r] on (0 when the key is absent).
getRoom(w, r) ==
  IF w.up THEN IF w.now < w.kv.metaExp[r] THEN w.kv.meta[r] ELSE None
  ELSE w.loc.rooms[r]
getAllRooms(w) ==
  IF w.up THEN {r \in Rooms : IsSome(w.kv.all[r])}
  ELSE {r \in Rooms : IsSome(w.loc.rooms[r])}
getRoomUsers(w, r) == IF w.up THEN w.kv.users[r] ELSE w.loc.users[r]
getRoomUserCount(w, r) == Cardinality(getRoomUsers(w, r))
getRoomCursors(w, r) ==
  IF w.up THEN w.kv.cursors[r] ELSE [u \in Sessions |-> None]

(***************************************************************************)
(* lib/rateLimiter + lib/redis incrementWithExpiry                         *)
(***************************************************************************)
NoTTL == 0 - 1
NoCounter == [count |-> 0, exp |-> NoTTL]

\* A Redis key is gone once its TTL has run out.
KeyLive(c, t) == c.count > 0 /\ (c.exp = NoTTL \/ t < c.exp)

\* checkRateLimit L81: windowSeconds = ceil(windowMs / 1000).
WindowSeconds(action) == (LIMITS[action].windowMs + 999) \div 1000

\* redisClient.incr(key): creates the key (without TTL) when absent.
RedisIncr(c, t) ==
  IF KeyLive(c, t) THEN [c EXCEPT !.count = c.count + 1]
  ELSE [count |-> 1, exp |-> NoTTL]

\* redisClient.expire(key, seconds) on a key that exists.
RedisExpire(c, t, seconds) ==
  IF KeyLive(c, t) THEN [c EXCEPT !.exp = t + seconds * 1000] ELSE c

\* A faulty bucket whose window slides with every increment; C34 must
\* tell it from incrementLocalBucket.
incrementLocalBucketSliding(b, t, windowMs) ==
  IF b.count = 0 \/ t > b.resetAt
  THEN [count |-> 1, resetAt |-> t + windowMs]
  ELSE [count |-> b.count + 1, resetAt |-> t + windowMs]

\* incrementLocalBucket L156-172.
incrementLocalBucket(b, t, windowMs) ==
  IF b.count = 0 \/ t > b.resetAt
  THEN [count |-> 1, resetAt |-> t + windowMs]
  ELSE [b EXCEPT !.count = b.count + 1]

(***************************************************************************)
(* lib/rateLimiter: checkConnectionLimit L292-317 and its sweep L320-330.  *)
(* connectionAttempts is a map of the hub process: attempts is the entry   *)
(* of one address, the times of its admitted attempts.                     *)
(***************************************************************************)
\* attempts.filter((t) => now - t < 60000), L307 and L323.
Recent(attempts, t) == SelectSeq(attempts, LAMBDA a : t - a < ConnWindowMs)

\* A faulty gate that admits one attempt more; C19 must tell it from
\* checkConnectionLimit.
checkConnectionLimitOneMore(attempts, t, maxPerMinute) ==
  LET recentAttempts == Recent(attempts, t) IN
  IF Len(recentAttempts) > maxPerMinute
  THEN [ok |-> FALSE, attempts |-> attempts]
  ELSE [ok |-> TRUE, attempts |-> Append(recentAttempts, t)]

\* checkConnectionLimit L297-317: a rejected attempt leaves the entry as
\* it was.
checkConnectionLimit(attempts, t, maxPerMinute) ==
  LET recentAttempts == Recent(attempts, t) IN
  IF Len(recentAttempts) >= maxPerMinute
  THEN [ok |-> FALSE, attempts |-> attempts]
  ELSE [ok |-> TRUE, attempts |-> Append(recentAttempts, t)]

ActionOf(kind) ==
  CASE kind \in {"connect", "room:join"} -> "roomJoin"
    [] kind \in {"video:play", "video:pause", "video:seek"} -> "videoControl"
    [] kind = "cursor:move" -> "cursor"
    [] kind = "reaction:send" -> "reaction"
    [] kind \in Actions -> kind
    [] OTHER -> "sync"

\* A faulty limiter that admits one message more than the cap; C2 must
\* tell it from Allowed.
AllowedOneMore(action, count) == count <= LIMITS[action].max + 1

\* checkRateLimit L93.
Allowed(action, count) == count <= LIMITS[action].max

\* checkRateLimit was called for itself (kind is the action) and has its
\* count: note whether it allows the call, at the time of the count.
NoteCheck(w, kind, count) ==
  IF kind \in Actions /\ Allowed(kind, count)
  THEN [w EXCEPT !.obs.allowedNow = @ + 1] ELSE w

\* checkRateLimit, up to its first await (KV) or to its return
\* (standalone).
CallRateLimit(w, t) ==
  LET a == ActionOf(t.kind) IN
  IF w.up THEN Cont(w, At(t, "rl_incr"))
  ELSE LET b == incrementLocalBucket(w.loc.buckets[a][t.sid], w.now,
                                     LIMITS[a].windowMs)
       IN Cont(NoteCheck([w EXCEPT !.loc.buckets[a][t.sid] = b],
                         t.kind, b.count),
               [t EXCEPT !.pc = "rl_yield", !.n = b.count])

(***************************************************************************)
(* server.ts: what the hub emits.  obs records the emissions the           *)
(* properties speak about.                                                 *)
(***************************************************************************)
\* socket.emit("error:ratelimit", {action, retryIn}) to session sid.
EmitRateLimit(w, sid, action, retryIn) ==
  [w EXCEPT !.obs.errs = @ \cup {<<sid, action, retryIn>>}]

\* A message of session sid was denied by checkRateLimit.
NoteDenied(w, sid, kind) ==
  [w EXCEPT !.obs.denied = Append(@, <<sid, kind>>)]

\* A write to the data of room r takes effect.  While a deleteRoom(r) is
\* running or has completed, the write opens a new epoch of r: a
\* deleteRoom(r) that began in an earlier epoch no longer vouches for r.
Touch(w, r) ==
  IF w.obs.deleted[r] = "no" THEN w
  ELSE [w EXCEPT !.obs.deleted[r] = "no", !.obs.epoch[r] = @ + 1]

\* socket.emit(ev, ...) to the socket of session sid: obs.toSock[sid] lists
\* the user:self and room:joined messages in the order of their emits.
EmitTo(w, sid, ev, r, users) ==
  [w EXCEPT !.obs.toSock[sid] = Append(@, [ev |-> ev, roomId |-> r,
                                           users |-> users])]

\* A video control message or a video tick has started.
LogVideo(w, sid, kind, arg) ==
  [w EXCEPT !.obs.videoLog = Append(@, <<sid, kind, arg>>),
            !.obs.pausedAt = IF kind = "video:seek"
                             THEN [r \in Rooms |-> None] ELSE @]

\* obs.cursorOf is the cursor map the room manager's contract describes:
\* updateCursor(r, u, c) has returned, and no removeCursor(r, u),
\* removeUserFromRoom(r, u) or deleteRoom(r) has returned since.
CursorSet(w, r, u, c) == [w EXCEPT !.obs.cursorOf[r][u] = c]
CursorsGone(w, r) ==
  [w EXCEPT !.obs.cursorOf[r] = [u \in Sessions |-> None]]

(***************************************************************************)
(* server.ts: leaveRoom L324-342, joinRoom L268-322, heartbeat L538-545    *)
(***************************************************************************)
\* The auto-join of the connection handler has returned (L345): the
\* socket.on(...) registrations of L347-555 run.
HandlerDone(w, t) ==
  Fin(IF t.kind = "connect"
      THEN [w EXCEPT !.sock[t.sid].registered = TRUE] ELSE w)

\* leaveRoom L340 and the return to its caller.  obs.left[r][u]: a
\* leaveRoom(r) of user u has completed and u has not entered r since.
AfterLeave(w, t) ==
  LET w2 == [w EXCEPT !.sock[t.sid].currentRoom = Null,
                      !.obs.left[t.lroom][t.sid] = TRUE] IN
  IF t.kind \in {"connect", "room:join"} THEN CallRateLimit(w2, t)
  ELSE Fin(w2)

\* leaveRoom L324-329, up to the first await.
CallLeave(w, t, roomId) ==
  IF roomId = Null THEN Fin(w)
  ELSE LET w2 == [w EXCEPT !.sock[t.sid].io = @ \ {roomId}]
           t2 == [t EXCEPT !.lroom = roomId]
       IN IF w.up THEN Cont(w2, At(t2, "lv_hdelUsers"))
          ELSE Cont([w2 EXCEPT !.loc.users[roomId] = @ \ {t.sid}],
                    At(t2, "lv_removeUser"))

\* removeUserFromRoom L196, L197; removeCursor L329; getRoomUsers L337.
LeaveStep(w, t) ==
  CASE t.pc = "lv_hdelUsers" ->
         Cont([w EXCEPT !.kv.users[t.lroom] = @ \ {t.sid}],
              At(t, "lv_hdelCursor"))
    [] t.pc = "lv_hdelCursor" ->
         Cont(CursorSet([w EXCEPT !.kv.cursors[t.lroom][t.sid] = None],
                        t.lroom, t.sid, None),
              At(t, "lv_removeCursor"))
    [] t.pc = "lv_removeUser" ->
         Cont(CursorSet(w, t.lroom, t.sid, None), At(t, "lv_removeCursor"))
    [] t.pc = "lv_removeCursor" ->
         \* L330 done (hDel of the cursor when connected); L333-337
         LET w2 == IF w.up
                   THEN [w EXCEPT !.kv.cursors[t.lroom][t.sid] = None]
                   ELSE w
         IN Cont(CursorSet(w2, t.lroom, t.sid, None),
                 [t EXCEPT !.pc = "lv_getUsers",
                           !.users = IF w.up THEN {}
                                     ELSE getRoomUsers(w2, t.lroom)])
    [] t.pc = "lv_getUsers" -> AfterLeave(w, t)

\* addUserToRoom L174-189, up to its first await.
CallAddUser(w, t) ==
  IF w.up THEN Cont(w, At(t, "au_hset"))
  ELSE Cont(Touch([w EXCEPT !.loc.users[t.room] = @ \cup {t.sid}], t.room),
            At(t, "au_yield"))

\* addUserToRoom has returned: to heartbeat L544, to a caller of the room
\* manager, or to joinRoom L303-321 (getVideoState, getRoomUsers, the
\* emits).
AfterAddUser(w, t) ==
  IF t.kind \in {"heartbeat", "addUserToRoom"} THEN Fin(w)
  ELSE Cont(w, At(t, "jn_getVideo"))

AddUserStep(w, t) ==
  CASE t.pc = "au_hset" ->
         Cont(Touch([w EXCEPT !.kv.users[t.room] = @ \cup {t.sid}], t.room),
              At(t, "au_expire"))
    [] t.pc = "au_expire" -> AfterAddUser(w, t)
    [] t.pc = "au_yield" -> AfterAddUser(w, t)

\* joinRoom L296-300.
JoinEnter(w, t) ==
  CallAddUser([w EXCEPT !.sock[t.sid].io = @ \cup {t.room},
                        !.sock[t.sid].currentRoom = t.room,
                        !.obs.left[t.room][t.sid] = FALSE], t)

\* createRoom has returned: to joinRoom L293, or to a caller of the room
\* manager.
AfterCreate(w, t) ==
  IF t.kind = "createRoom" THEN Fin(w) ELSE JoinEnter(w, t)

\* createRoom L98-116, up to its first await: roomData carries Date.now()
\* of the call.
createRoom(w, t) ==
  LET rd == JoinRoomData(t.room, t.sid, w.now) IN
  IF w.up THEN Cont(w, [t EXCEPT !.pc = "cr_hsetAll", !.rd = Some(rd)])
  ELSE Cont(Touch([w EXCEPT !.loc.rooms[t.room] = Some(rd)], t.room),
            [t EXCEPT !.pc = "cr_yield", !.rd = Some(rd)])

\* joinRoom L290-293.
EnsureRoom(w, t, room) ==
  IF IsSome(room) THEN JoinEnter(w, t) ELSE createRoom(w, t)

\* joinRoom L281-290 after checkRateLimit returned.
JoinAfterRate(w, t) ==
  IF ~Allowed("roomJoin", t.n)
  THEN HandlerDone(
         EmitRateLimit(NoteDenied(w, t.sid, t.kind), t.sid, "roomJoin",
                       LIMITS["roomJoin"].windowMs), t)
  ELSE Cont(w, [t EXCEPT !.pc = "jn_getRoom",
                         !.rd = IF w.up THEN None ELSE getRoom(w, t.room)])

JoinStep(w, t) ==
  CASE t.pc = "jn_getRoom" ->
         EnsureRoom(w, t, IF w.up THEN getRoom(w, t.room) ELSE t.rd)
    [] t.pc = "cr_hsetAll" ->
         Cont(Touch([w EXCEPT !.kv.all[t.room] = t.rd], t.room),
              At(t, "cr_setMeta"))
    [] t.pc = "cr_setMeta" ->
         AfterCreate(Touch([w EXCEPT !.kv.meta[t.room] = t.rd,
                                     !.kv.metaExp[t.room] = w.now + RoomTtlMs],
                           t.room), t)
    [] t.pc = "cr_yield" -> AfterCreate(w, t)
    [] t.pc = "jn_getVideo" ->
         \* L303 done; getRoomUsers L304 reads the local map at the call.
         Cont(w, [t EXCEPT !.pc = "jn_getUsers",
                           !.users = IF w.up THEN {}
                                     ELSE getRoomUsers(w, t.room)])
    [] t.pc = "jn_getUsers" ->
         \* L304 done; the emits of L307-318.
         LET users == IF w.up THEN getRoomUsers(w, t.room) ELSE t.users IN
         HandlerDone(EmitTo(w, t.sid, "room:joined", t.room, users), t)

\* joinRoom L268-280, up to its first await.
joinRoom(w, t) ==
  LET cur == w.sock[t.sid].currentRoom IN
  IF cur # Null THEN CallLeave(w, t, cur) ELSE CallRateLimit(w, t)

\* socket.on("room:leave") L353-356 and socket.on("disconnect") L551-555.
leaveRoom(w, t) == CallLeave(w, t, w.sock[t.sid].currentRoom)

\* socket.on("heartbeat") L538-545.
heartbeat(w, t) ==
  LET cur == w.sock[t.sid].currentRoom IN
  IF cur = Null THEN Fin(w) ELSE CallAddUser(w, [t EXCEPT !.room = cur])

(***************************************************************************)
(* lib/roomManager: deleteRoom L149-165, cleanupEmptyRooms L340-353        *)
(***************************************************************************)
\* A faulty standalone delete that forgets the video state; C9 must tell
\* it from deleteRoomLocal.
deleteRoomLocalKeepVideo(w, r) ==
  [w EXCEPT !.loc.rooms[r] = None, !.loc.users[r] = {}]

\* The standalone branch of deleteRoom, L160-162.
deleteRoomLocal(w, r) ==
  [w EXCEPT !.loc.rooms[r] = None, !.loc.users[r] = {},
            !.loc.video[r] = 0]

\* The loop head of cleanupEmptyRooms L343-344: the next room's
\* getRoomUserCount, or the end of the sweep.
CleanupIter(w, t) ==
  IF t.todo = <<>> THEN Fin(w)
  ELSE LET r == Head(t.todo) IN
       Cont(w, [t EXCEPT !.pc = "cl_userCount", !.room = r,
                         !.n = IF w.up THEN 0 ELSE getRoomUserCount(w, r)])

CleanupNext(w, t) == CleanupIter(w, [t EXCEPT !.todo = Tail(t.todo)])

\* deleteRoom has returned.  It vouches for the room if no write to the
\* room took effect since it was called (t.n is the epoch of the call).
AfterDelete(w, t) ==
  LET w2 == IF w.obs.epoch[t.room] = t.n /\ w.obs.deleted[t.room] # "no"
            THEN [w EXCEPT !.obs.deleted[t.room] = "done"] ELSE w
      w3 == CursorsGone(w2, t.room)
  IN IF t.kind = "cleanup" THEN CleanupNext(w3, t) ELSE Fin(w3)

\* deleteRoom L149-163, up to its first await.
deleteRoom(w, t) ==
  LET w2 == [w EXCEPT !.obs.deleted[t.room] =
                         IF @ = "done" THEN @ ELSE "running"]
      t2 == [t EXCEPT !.n = w.obs.epoch[t.room]]
  IN IF w.up THEN Cont(w2, At(t2, "dl_all"))
     ELSE Cont(deleteRoomLocal(w2, t.room), At(t2, "dl_yield"))

DeleteStep(w, t) ==
  CASE t.pc = "dl_all" ->
         Cont([w EXCEPT !.kv.all[t.room] = None], At(t, "dl_meta"))
    [] t.pc = "dl_meta" ->
         Cont([w EXCEPT !.kv.meta[t.room] = None, !.kv.metaExp[t.room] = 0],
              At(t, "dl_users"))
    [] t.pc = "dl_users" ->
         Cont([w EXCEPT !.kv.users[t.room] = {}], At(t, "dl_video"))
    [] t.pc = "dl_video" ->
         Cont([w EXCEPT !.kv.video[t.room] = None], At(t, "dl_cursors"))
    [] t.pc = "dl_cursors" ->
         AfterDelete([w EXCEPT !.kv.cursors[t.room] =
                                  [u \in Sessions |-> None]], t)
    [] t.pc = "dl_yield" -> AfterDelete(w, t)

\* cleanupEmptyRooms L348: old enough to reap.
ReapAge(roomData, t) == t - roomData.createdAt > ReapAgeMs

\* The order in which getAllRooms lists the rooms is the store's.
RoomOrders ==
  {o \in [1..Cardinality(Rooms) -> Rooms] : \A r \in Rooms : \E i \in DOMAIN o : o[i] = r}

CleanupStep(w, t) ==
  CASE t.pc = "cl_getAll" ->
         \* t.todo holds the listing order; L341 filters it to the rooms
         \* listed at the time of the read.
         LET listed == IF w.up THEN getAllRooms(w) ELSE t.users IN
         CleanupIter(w, [t EXCEPT !.todo =
                           SelectSeq(t.todo, LAMBDA r : r \in listed)])
    [] t.pc = "cl_userCount" ->
         LET n == IF w.up THEN getRoomUserCount(w, t.room) ELSE t.n IN
         IF n = 0
         THEN Cont(w, [t EXCEPT !.pc = "cl_getRoom",
                         !.rd = IF w.up THEN None ELSE getRoom(w, t.room)])
         ELSE CleanupNext(w, t)
    [] t.pc = "cl_getRoom" ->
         LET rd == IF w.up THEN getRoom(w, t.room) ELSE t.rd IN
         IF IsSome(rd) /\ ReapAge(The(rd), w.now)
         THEN deleteRoom(w, t)
         ELSE CleanupNext(w, t)

\* cleanupEmptyRooms L340-341, up to its first await.
cleanupEmptyRooms(w, t, order) ==
  Cont(w, [t EXCEPT !.pc = "cl_getAll", !.todo = order,
                    !.users = IF w.up THEN {} ELSE getAllRooms(w)])

(***************************************************************************)
(* lib/roomManager: video state L235-298.  currentTime is kept in ms so    *)
(* that (now - lastUpdateTime) / 1000 stays an integer; duration is in     *)
(* seconds as in the source.                                               *)
(*                                                                         *)
(* Connected to the KV store a VideoState a task holds is its own parsed   *)
(* copy (t.vs).  Standalone, getVideoState returns the stored object       *)
(* itself: objects live in loc.heap, loc.video[r] and t.ref are references *)
(* (0 = none), and a write through a reference is seen by every holder.    *)
(***************************************************************************)
getDefaultVideoState(t) ==
  [isPlaying |-> FALSE, currentTime |-> 0, duration |-> DefaultDuration,
   serverTimestamp |-> t, lastUpdateTime |-> t]

\* getVideoState as a read of the store of the current mode.
getVideoState(w, r) ==
  IF w.up
  THEN IF IsSome(w.kv.video[r]) THEN The(w.kv.video[r])
       ELSE getDefaultVideoState(w.now)
  ELSE IF w.loc.video[r] # 0 THEN w.loc.heap[w.loc.video[r]]
       ELSE getDefaultVideoState(w.now)

\* The VideoState object the task holds in `state`.
StateOf(w, t) == IF w.up THEN The(t.vs) ELSE w.loc.heap[t.ref]

\* An assignment to fields of `state`.
SetState(w, t, st) ==
  IF w.up THEN Cont(w, [t EXCEPT !.vs = Some(st)])
  ELSE LET w2 == [w EXCEPT !.loc.heap[t.ref] = st] IN
       Cont(IF w.loc.video[t.room] = t.ref THEN Touch(w2, t.room) ELSE w2, t)

\* getVideoState L248-254 up to its await (KV) or to its return
\* (standalone): the standalone call hands out the stored object, or a new
\* default object.
CallGetVideo(w, t, pc) ==
  IF w.up THEN Cont(w, At(t, pc))
  ELSE IF w.loc.video[t.room] # 0
       THEN Cont(w, [t EXCEPT !.pc = pc, !.n = w.loc.video[t.room]])
       ELSE Cont([w EXCEPT !.loc.heap =
                     Append(@, getDefaultVideoState(w.now))],
                 [t EXCEPT !.pc = pc, !.n = Len(w.loc.heap) + 1])

\* The reply of getVideoState: bind it to `state`.
BindState(w, t) ==
  IF w.up THEN [t EXCEPT !.vs = Some(getVideoState(w, t.room))]
  ELSE [t EXCEPT !.ref = t.n]

Min(a, b) == IF a < b THEN a ELSE b
Max(a, b) == IF a > b THEN a ELSE b

\* A faulty update that moves lastUpdateTime also when the video is paused;
\* C11 must tell it from AdvanceVideo.
AdvanceVideoStampAlways(st, t) ==
  LET ct == Min(st.currentTime + (t - st.lastUpdateTime),
                st.duration * 1000)
  IN [st EXCEPT !.currentTime = IF ~st.isPlaying THEN @
                                 ELSE IF ct >= st.duration * 1000 THEN 0
                                 ELSE ct,
                !.lastUpdateTime = t,
                !.serverTimestamp = t]

\* updateVideoTime L282-294.
AdvanceVideo(st, t) ==
  LET ct == Min(st.currentTime + (t - st.lastUpdateTime),
                st.duration * 1000)
      played == IF st.isPlaying
                THEN [st EXCEPT !.currentTime =
                                  IF ct >= st.duration * 1000 THEN 0 ELSE ct,
                                !.lastUpdateTime = t]
                ELSE st
  IN [played EXCEPT !.serverTimestamp = t]

\* setVideoState L261-265: {...currentState, ...state, serverTimestamp}.
\* Every caller passes a complete VideoState, so `state` overrides every
\* field of currentState.
MergeVideo(currentState, state, t) ==
  [f \in DOMAIN currentState |->
     IF f = "serverTimestamp" THEN t
     ELSE IF f \in DOMAIN state THEN state[f] ELSE currentState[f]]

\* setVideoState L259-260, up to its await of getVideoState.
setVideoState(w, t, ph) ==
  LET r == CallGetVideo(w, t, "sv_get") IN
  Cont(r.w, [The(r.t) EXCEPT !.ph = ph])

\* io.to(roomId).emit("video:state", state).
\* obs.newest[r] keeps, of the states broadcast so far, the one computed
\* last (greatest lastUpdateTime).
EmitVideoState(w, r, st) ==
  [w EXCEPT !.obs.videoState[r] = Some(st), !.obs.bcast[r] = @ + 1,
            !.obs.newest[r] =
               IF IsSome(@) /\ The(@).lastUpdateTime > st.lastUpdateTime
               THEN @ ELSE Some(st)]

\* updateVideoTime L279-281.
updateVideoTime(w, t) == CallGetVideo(w, t, "uv_get")

\* The video tick L596-603: the next listed room, or the end.
VideoTickIter(w, t) ==
  IF t.todo = <<>> THEN Fin(w)
  ELSE updateVideoTime(w, [t EXCEPT !.room = Head(t.todo),
                                    !.todo = Tail(t.todo)])

\* The caller's code after `await updateVideoTime(...)`: video:play
\* L402-404, video:pause L424-425, the video tick L599.
AfterUpdateVideoTime(w, t) ==
  LET st == StateOf(w, t) IN
  CASE t.kind = "video:play" ->
         LET r == SetState(w, t, [st EXCEPT !.isPlaying = TRUE,
                                            !.lastUpdateTime = w.now])
         IN setVideoState(r.w, The(r.t), 2)
    [] t.kind = "video:pause" ->
         LET r == SetState(w, t, [st EXCEPT !.isPlaying = FALSE])
         IN setVideoState(r.w, The(r.t), 2)
    [] t.kind = "updateVideoTime" -> Fin(w)
    [] OTHER -> VideoTickIter(EmitVideoState(w, t.room, st), t)

\* A video control handler has written its state st.  obs.pausedAt[r] is
\* the position a video:pause wrote, until a video:play or a video:seek
\* writes; obs.resumed[r] pairs that position with the one the video:play
\* wrote.  A video:seek ends the pause it interrupts as soon as it is
\* received (LogVideo).  obs.pausedLast[r]: the control handler of r that
\* finished last, video:seek apart, was a video:pause.
NoteControl(w, t, st) ==
  LET r == t.room
      p == w.obs.pausedAt[r]
  IN CASE t.kind = "video:pause" ->
            [w EXCEPT !.obs.pausedAt[r] = Some(st.currentTime),
                      !.obs.pausedLast[r] = TRUE]
       [] t.kind = "video:play" ->
            [w EXCEPT !.obs.pausedAt[r] = None,
                      !.obs.pausedLast[r] = FALSE,
                      !.obs.resumed[r] =
                         IF IsSome(p) THEN Some(<<The(p), st.currentTime>>)
                         ELSE @]
       [] OTHER -> [w EXCEPT !.obs.pausedAt[r] = None]

\* setVideoState has returned to its caller: updateVideoTime L295-297
\* (ph = 1), a handler, L409 / L430 / L452 (ph = 2), or a caller of the
\* room manager (ph = 0).
AfterSetVideo(w, t) ==
  CASE t.ph = 1 ->
         IF w.up THEN AfterUpdateVideoTime(w, t) ELSE Cont(w, At(t, "uv_ret"))
    [] t.ph = 2 ->
         Fin(EmitVideoState(NoteControl(w, t, StateOf(w, t)), t.room,
                            StateOf(w, t)))
    [] OTHER -> Fin(w)

\* A faulty seek that takes the requested time as it comes; C12 must tell
\* it from SeekTarget.
SeekTargetUnclamped(time, st) == time

\* video:seek L445: Math.max(0, Math.min(time, state.duration)).
SeekTarget(time, st) == Max(0, Min(time, st.duration * 1000))

VideoStep(w, t) ==
  CASE t.pc = "uv_get" ->
         \* t.seen keeps the state as it was read and the Date.now() of
         \* L283 / L294.
         LET t2 == BindState(w, t)
             read == StateOf(w, t2)
             r == SetState(w, [t2 EXCEPT !.seen = Some([st |-> read,
                                                        at |-> w.now])],
                           AdvanceVideo(read, w.now))
         IN setVideoState(r.w, The(r.t), 1)
    [] t.pc = "sv_get" ->
         LET currentState == IF w.up THEN getVideoState(w, t.room)
                             ELSE w.loc.heap[t.n]
             videoState == MergeVideo(currentState, StateOf(w, t), w.now)
         IN IF w.up
            THEN Cont(w, [t EXCEPT !.pc = "sv_set", !.cur = Some(videoState)])
            ELSE Cont(Touch([w EXCEPT
                               !.loc.heap = Append(@, videoState),
                               !.loc.video[t.room] = Len(w.loc.heap) + 1],
                            t.room),
                      At(t, "sv_yield"))
    [] t.pc = "sv_set" ->
         AfterSetVideo(Touch([w EXCEPT !.kv.video[t.room] = t.cur], t.room),
                       t)
    [] t.pc = "sv_yield" -> AfterSetVideo(w, t)
    [] t.pc = "uv_ret" -> AfterUpdateVideoTime(w, t)
    [] t.pc = "sk_get" ->
         LET t2 == BindState(w, t)
             st == StateOf(w, t2)
             r == SetState(w, t2,
                           [st EXCEPT !.currentTime = SeekTarget(t.arg[1], st),
                                      !.lastUpdateTime = w.now])
         IN setVideoState(r.w, The(r.t), 2)
    [] t.pc = "vt_getAll" ->
         LET listed == IF w.up THEN getAllRooms(w) ELSE t.users IN
         VideoTickIter(w, [t EXCEPT !.todo =
                              SelectSeq(t.todo, LAMBDA r : r \in listed)])

\* The video tick L594-595, up to its await of getAllRooms.
videoTick(w, t, order) ==
  Cont(w, [t EXCEPT !.pc = "vt_getAll", !.todo = order,
                    !.users = IF w.up THEN {} ELSE getAllRooms(w)])

(***************************************************************************)
(* server.ts: batching L150-180, cursor:move L459-484, reaction:send       *)
(* L490-532, time:sync L374-384, the flush intervals L563-582              *)
(***************************************************************************)
\* A faulty accumulator that keeps every update (an array instead of a
\* Map keyed by user id); C5 must tell it from batchCursorUpdate.
batchCursorUpdateAppend(batch, cursorData) == Append(batch, cursorData)

\* cursorBatches.get(roomId).set(userId, cursorData): a Map keeps the
\* position of a key it already holds and puts a new key last.
batchCursorUpdate(batch, cursorData) ==
  IF \E k \in DOMAIN batch : batch[k].userId = cursorData.userId
  THEN [k \in DOMAIN batch |->
          IF batch[k].userId = cursorData.userId THEN cursorData
          ELSE batch[k]]
  ELSE Append(batch, cursorData)

\* reactionBatches.get(roomId).push(reaction).
batchReaction(batch, reaction) == Append(batch, reaction)

\* A handler's `if (!rateCheck.allowed) return;`.
Denied(w, t) == Fin(NoteDenied(w, t.sid, t.kind))

\* A faulty rate check that notes the denial and handles the message
\* anyway; C7 must tell it from RateGate.
RateGateFallThrough(w, t, accepted) ==
  IF ~Allowed(ActionOf(t.kind), t.n)
  THEN [accepted EXCEPT !.w = NoteDenied(@, t.sid, t.kind)]
  ELSE accepted

\* The rate check of the room-scoped handlers: L399, L421, L442, L468,
\* L511 and of time:sync L376.
RateGate(w, t, accepted) ==
  IF ~Allowed(ActionOf(t.kind), t.n) THEN Denied(w, t) ELSE accepted

\* updateCursor L307-312, up to its await (KV) or to its return.
updateCursor(w, t, cursorData) ==
  IF w.up THEN Cont(w, [t EXCEPT !.pc = "cu_hset", !.cur = Some(cursorData)])
  ELSE Cont(w, [t EXCEPT !.pc = "cu_yield", !.cur = Some(cursorData)])

\* cursor:move L470-483, after the rate check.
cursorMove(w, t) ==
  LET cursorData == [userId |-> t.sid, x |-> t.arg[1], y |-> t.arg[2],
                     timestamp |-> w.now]
      w2 == [w EXCEPT
               !.hub[t.inst].cursorBatches[t.room] =
                  batchCursorUpdate(@, cursorData),
               !.obs.accepted[t.room][t.sid] = Some(cursorData)]
  IN updateCursor(w2, t, cursorData)

\* A faulty updateCursor that stores the cursor under the room's creator;
\* C28 must tell it from CursorStep.
CursorStepWrongField(w, t) ==
  CASE t.pc = "cu_hset" ->
         Fin(CursorSet(Touch([w EXCEPT !.kv.cursors[t.room]["u1"] = t.cur],
                             t.room), t.room, t.sid, t.cur))
    [] t.pc = "cu_yield" -> Fin(CursorSet(w, t.room, t.sid, t.cur))

\* updateCursor L309: the hSet reply, or the standalone return.
CursorStep(w, t) ==
  CASE t.pc = "cu_hset" ->
         Fin(CursorSet(Touch([w EXCEPT !.kv.cursors[t.room][t.sid] = t.cur],
                             t.room), t.room, t.sid, t.cur))
    [] t.pc = "cu_yield" -> Fin(CursorSet(w, t.room, t.sid, t.cur))

\* generateReactionId L151-154 without its random suffix, and
\* reaction:send L513-526.
reactionSend(w, t) ==
  LET counter == w.hub[t.inst].reactionCounter + 1
      reaction == [id |-> <<w.now, counter>>, userId |-> t.sid,
                   emoji |-> t.arg[1], timestamp |-> w.now]
  IN Fin([w EXCEPT !.hub[t.inst].reactionCounter = counter,
                   !.hub[t.inst].reactionBatches[t.room] =
                      batchReaction(@, reaction),
                   !.obs.reacted = Append(@, [roomId |-> t.room,
                                              reaction |-> reaction])])

\* time:sync L378-383.
timeSync(w, t) ==
  Fin([w EXCEPT !.obs.sync[t.sid] =
         Some([clientTimestamp |-> t.arg[1], serverReceiveTime |-> w.now,
               serverSendTime |-> w.now])])

\* A faulty guard that counts the message against the rate limit before
\* it looks at the room; C23 must tell it from roomScoped.
roomScopedCountFirst(w, t) ==
  LET roomId == w.sock[t.sid].currentRoom
      r == CallRateLimit(w, [t EXCEPT !.room = roomId])
  IN IF roomId = Null THEN Fin(r.w) ELSE r

\* L391-399 and its like: a room-scoped handler up to its first await.
roomScoped(w, t) ==
  LET roomId == w.sock[t.sid].currentRoom IN
  IF roomId = Null THEN Fin(w)
  ELSE CallRateLimit(w, [t EXCEPT !.room = roomId])

\* The cursor flush L563-571 on instance i.
flushCursors(w, i) ==
  LET b == w.hub[i].cursorBatches
      flushed == {r \in Rooms : Len(b[r]) > 0}
  IN [w EXCEPT
        !.hub[i].cursorBatches = [r \in Rooms |-> <<>>],
        !.obs.cursorsBatch = [r \in Rooms |->
                                IF r \in flushed THEN b[r] ELSE @[r]],
        !.obs.bcast = [r \in Rooms |->
                         IF r \in flushed THEN @[r] + 1 ELSE @[r]],
        !.obs.accepted = [r \in Rooms |-> [u \in Sessions |->
                            IF InstOf(u, w.up) = i THEN None ELSE @[r][u]]],
        !.obs.flushes = @ + 1]

\* A faulty flush that emits the accumulators and keeps them; C21 must
\* tell it from flushReactions.
flushReactionsKeep(w, i) ==
  LET b == w.hub[i].reactionBatches
      flushed == {r \in Rooms : Len(b[r]) > 0}
  IN [w EXCEPT
        !.obs.reactionsBatch = [r \in Rooms |->
                                  IF r \in flushed THEN b[r] ELSE @[r]],
        !.obs.reactionsOut = [r \in Rooms |-> @[r] \o b[r]],
        !.obs.reactionFlushes = @ + 1,
        !.obs.bcast = [r \in Rooms |->
                         IF r \in flushed THEN @[r] + 1 ELSE @[r]]]

\* The reaction flush L574-582 on instance i.  obs.reactionsOut[r] lists
\* every reaction broadcast to room r so far, in order.
flushReactions(w, i) ==
  LET b == w.hub[i].reactionBatches
      flushed == {r \in Rooms : Len(b[r]) > 0}
  IN [w EXCEPT
        !.hub[i].reactionBatches = [r \in Rooms |-> <<>>],
        !.obs.reactionsBatch = [r \in Rooms |->
                                  IF r \in flushed THEN b[r] ELSE @[r]],
        !.obs.reactionsOut = [r \in Rooms |-> @[r] \o b[r]],
        !.obs.reactionFlushes = @ + 1,
        !.obs.bcast = [r \in Rooms |->
                         IF r \in flushed THEN @[r] + 1 ELSE @[r]]]

(***************************************************************************)
(* checkRateLimit L83-97 after the counter was incremented: each handler's *)
(* code after `await checkRateLimit(...)`.                                 *)
(***************************************************************************)
AfterRate(w, t) ==
  CASE t.kind \in {"connect", "room:join"} -> JoinAfterRate(w, t)
    [] t.kind \in {"video:play", "video:pause"} ->
         RateGate(w, t, updateVideoTime(w, t))
    [] t.kind = "video:seek" -> RateGate(w, t, CallGetVideo(w, t, "sk_get"))
    [] t.kind = "cursor:move" -> RateGate(w, t, cursorMove(w, t))
    [] t.kind = "reaction:send" -> RateGate(w, t, reactionSend(w, t))
    [] t.kind = "time:sync" -> RateGate(w, t, timeSync(w, t))
    [] t.kind \in Actions -> Fin(w)

\* incrementWithExpiry L215-219 (KV path) and the return from the
\* standalone path.
RateStep(w, t) ==
  LET a == ActionOf(t.kind) IN
  CASE t.pc = "rl_incr" ->
         LET c == RedisIncr(w.kv.rate[a][t.sid], w.now)
             w2 == NoteCheck([w EXCEPT !.kv.rate[a][t.sid] = c],
                             t.kind, c.count)
         IN IF c.count = 1
            THEN Cont(w2, [t EXCEPT !.pc = "rl_expire", !.n = c.count])
            ELSE AfterRate(w2, [t EXCEPT !.n = c.count])
    [] t.pc = "rl_expire" ->
         AfterRate([w EXCEPT !.kv.rate[a][t.sid] =
                      RedisExpire(@, w.now, WindowSeconds(a))], t)
    [] t.pc = "rl_yield" -> AfterRate(w, t)

(***************************************************************************)
(* The scheduler: a resumed task runs to its next await.                   *)
(***************************************************************************)
Step(w, t) ==
  CASE t.pc \in {"rl_incr", "rl_expire", "rl_yield"} -> RateStep(w, t)
    [] t.pc \in {"lv_hdelUsers", "lv_hdelCursor", "lv_removeUser",
                 "lv_removeCursor", "lv_getUsers"} -> LeaveStep(w, t)
    [] t.pc \in {"au_hset", "au_expire", "au_yield"} -> AddUserStep(w, t)
    [] t.pc \in {"jn_getRoom", "cr_hsetAll", "cr_setMeta", "cr_yield",
                 "jn_getVideo", "jn_getUsers"} -> JoinStep(w, t)
    [] t.pc \in {"dl_all", "dl_meta", "dl_users", "dl_video", "dl_cursors",
                 "dl_yield"} -> DeleteStep(w, t)
    [] t.pc \in {"cl_getAll", "cl_userCount", "cl_getRoom"} ->
         CleanupStep(w, t)
    [] t.pc \in {"uv_get", "sv_get", "sv_set", "sv_yield", "uv_ret",
                 "sk_get", "vt_getAll"} -> VideoStep(w, t)
    [] t.pc \in {"cu_hset", "cu_yield"} -> CursorStep(w, t)

\* The world after a step, and the task (if it awaits again) queued behind
\* the tasks of its instance that already wait.
Commit(res, i, q) ==
  /\ now' = res.w.now
  /\ redisUp' = res.w.up
  /\ kv' = res.w.kv
  /\ loc' = res.w.loc
  /\ sock' = res.w.sock
  /\ hub' = res.w.hub
  /\ obs' = res.w.obs
  /\ pend' = [q EXCEPT ![i] = @ \o res.t]

\* The number of handler invocations in flight, which the model bounds.
RECURSIVE SumLen(_, _)
SumLen(q, is) ==
  IF is = {} THEN 0
  ELSE LET i == CHOOSE x \in is : TRUE IN Len(q[i]) + SumLen(q, is \ {i})

Inflight == SumLen(pend, Instances)

\* When an event of source src (a session, or "" for a timer or a new
\* connection) can start a handler.  Connected to the KV store, a handler
\* waits for I/O at every await and any event may arrive meanwhile.
\* Standalone, an await only yields to the microtask queue, which drains
\* before the next I/O event is taken: the handlers that overlap are those
\* of messages of one socket that arrived together, all started before
\* any of them resumes.
CanStart(src) ==
  /\ Inflight < MaxInflight
  /\ \/ redisUp
     \/ pend["i1"] = <<>>
     \/ /\ src \in Sessions
        /\ \A k \in 1..Len(pend["i1"]) :
              pend["i1"][k].sid = src /\ pend["i1"][k].fresh

\* The reply (or the microtask) the head task of instance i waits for
\* arrives.
Resume(i) ==
  /\ pend[i] # <<>>
  /\ Head(pend[i]).pc # "quit"
  /\ Commit(Step(World, [Head(pend[i]) EXCEPT !.fresh = FALSE]), i,
            [pend EXCEPT ![i] = Tail(@)])
  /\ UNCHANGED budget

\* Wall-clock time passes.
Tick(d) ==
  /\ budget > 0
  /\ now' = now + d
  /\ budget' = budget - 1
  /\ UNCHANGED <<redisUp, kv, loc, sock, pend, hub, obs>>

(***************************************************************************)
(* server.ts io.on("connection") L226-345 and the inbound messages         *)
(***************************************************************************)
\* obs.admitted lists the times of all admitted attempts, obs.rejected
\* counts the rejected ones, per hub instance and address.
NoteAttempt(w, i, ip, ok) ==
  IF ok THEN [w EXCEPT !.obs.admitted[i][ip] = Append(@, w.now)]
  ELSE [w EXCEPT !.obs.rejected[i][ip] = @ + 1]

NoSock == [st |-> "new", currentRoom |-> Null, registered |-> FALSE, io |-> {}]

\* The address the connections of session s come from.
ClientIP(s) == IF s = "u1" THEN "ip1" ELSE "ip2"

\* A faulty gate that logs the rejection and lets the connection pass;
\* C20 must tell it from ConnectionGate.
ConnectionGateOpen(w, i, ip) ==
  LET g == checkConnectionLimit(w.hub[i].connectionAttempts[ip], w.now,
                                ConnLimit)
  IN [ok |-> TRUE,
      w |-> NoteAttempt([w EXCEPT !.hub[i].connectionAttempts[ip] =
                                     g.attempts], i, ip, g.ok)]

\* server.ts L228-229 on instance i: checkConnectionLimit(clientIP, 20).
ConnectionGate(w, i, ip) ==
  LET g == checkConnectionLimit(w.hub[i].connectionAttempts[ip], w.now,
                                ConnLimit)
  IN [ok |-> g.ok,
      w |-> NoteAttempt([w EXCEPT !.hub[i].connectionAttempts[ip] =
                                     g.attempts], i, ip, g.ok)]

\* The connection handler L226-345: a rejected connection is closed at
\* L231 and the handler returns; an admitted one is identified (L235-255:
\* userId is what generateUserId returned; user:self carries it, L262) and
\* auto-joins its room (L345).
Connection(s, r, userId) ==
  /\ sock[s].st = "new"
  /\ CanStart("")
  /\ LET i == InstOf(s, redisUp)
         g == ConnectionGate(World, i, ClientIP(s))
     IN Commit(IF g.ok
               THEN joinRoom(EmitTo([g.w EXCEPT !.sock[s].st = "open"],
                                    s, "user:self", Null, {userId}),
                             NewTask("connect", s, r, i))
               ELSE Fin([g.w EXCEPT !.sock[s].st = "closed"]),
               i, pend)
  /\ UNCHANGED budget

\* A connection whose generateUserId returns an id no other session has:
\* the session's name stands for it, and the entries of the room manager
\* and of the rate limiter are keyed by it.
Connect(s, r) == Connection(s, r, s)

\* A message reaches a handler only once L347-555 have registered it and
\* while the socket is connected.
CanSend(s) ==
  /\ CanStart(s)
  /\ sock[s].st = "open"
  /\ sock[s].registered
  /\ budget > 0

Spend == budget' = budget - 1

RoomJoin(s, r) ==
  /\ CanSend(s)
  /\ Commit(joinRoom(World, NewTask("room:join", s, r, InstOf(s, redisUp))),
            InstOf(s, redisUp), pend)
  /\ Spend

RoomLeave(s) ==
  /\ CanSend(s)
  /\ Commit(leaveRoom(World, NewTask("room:leave", s, Null, InstOf(s, redisUp))),
            InstOf(s, redisUp), pend)
  /\ Spend

Heartbeat(s) ==
  /\ CanSend(s)
  /\ Commit(heartbeat(World, NewTask("heartbeat", s, Null, InstOf(s, redisUp))),
            InstOf(s, redisUp), pend)
  /\ Spend

\* The client goes away.  The "disconnect" listener exists only once the
\* auto-join has returned (L551).
Disconnect(s) ==
  /\ sock[s].st = "open"
  /\ CanStart("")
  /\ LET w == [World EXCEPT !.sock[s].st = "closed"] IN
     Commit(IF sock[s].registered
            THEN leaveRoom(w, NewTask("disconnect", s, Null, InstOf(s, redisUp)))
            ELSE Fin(w),
            InstOf(s, redisUp), pend)
  /\ UNCHANGED budget

\* setInterval L607-609 on instance i.
Sweep(i, order) ==
  /\ budget > 0
  /\ CanStart("")
  /\ redisUp \/ i = "i1"
  /\ Commit(cleanupEmptyRooms(World, NewTask("cleanup", "", Null, i), order),
            i, pend)
  /\ Spend

\* The inbound messages of L374-532.
StartMsg(s, kind, arg) ==
  [NewTask(kind, s, Null, InstOf(s, redisUp)) EXCEPT !.arg = arg]

VideoPlay(s) ==
  /\ CanSend(s)
  /\ Commit(roomScoped(LogVideo(World, s, "video:play", <<>>),
                       StartMsg(s, "video:play", <<>>)),
            InstOf(s, redisUp), pend)
  /\ Spend

VideoPause(s) ==
  /\ CanSend(s)
  /\ Commit(roomScoped(LogVideo(World, s, "video:pause", <<>>),
                       StartMsg(s, "video:pause", <<>>)),
            InstOf(s, redisUp), pend)
  /\ Spend

VideoSeek(s, time) ==
  /\ CanSend(s)
  /\ Commit(roomScoped(LogVideo(World, s, "video:seek", <<time>>),
                       StartMsg(s, "video:seek", <<time>>)),
            InstOf(s, redisUp), pend)
  /\ Spend

\* obs.cursorSent[s] is the position of the last cursor:move session s
\* has sent.
CursorMove(s, x, y) ==
  /\ CanSend(s)
  /\ Commit(roomScoped([World EXCEPT !.obs.cursorSent[s] = Some(<<x, y>>)],
                        StartMsg(s, "cursor:move", <<x, y>>)),
            InstOf(s, redisUp), pend)
  /\ Spend

ReactionSend(s, emoji) ==
  /\ CanSend(s)
  /\ Commit(roomScoped(World, StartMsg(s, "reaction:send", <<emoji>>)),
            InstOf(s, redisUp), pend)
  /\ Spend

TimeSync(s, clientTimestamp) ==
  /\ CanSend(s)
  /\ Commit(CallRateLimit(World, StartMsg(s, "time:sync", <<clientTimestamp>>)),
            InstOf(s, redisUp), pend)
  /\ Spend

\* A timer of instance i fires: timers run on every instance of a cluster,
\* and on the one standalone instance.
CanFire(i) ==
  /\ budget > 0
  /\ hub[i].phase # "down"
  /\ CanStart("")
  /\ redisUp \/ i = "i1"

\* setInterval L563-571 and L574-582: synchronous callbacks.  A firing
\* that finds every accumulator empty does nothing.
CursorFlush(i) ==
  /\ CanFire(i)
  /\ \E r \in Rooms : Len(hub[i].cursorBatches[r]) > 0
  /\ Commit(Fin(flushCursors(World, i)), i, pend)
  /\ Spend

ReactionFlush(i) ==
  /\ CanFire(i)
  /\ \E r \in Rooms : Len(hub[i].reactionBatches[r]) > 0
  /\ Commit(Fin(flushReactions(World, i)), i, pend)
  /\ Spend

\* setInterval L594-604 on instance i.
VideoTick(i, order) ==
  /\ CanFire(i)
  /\ Commit(videoTick(LogVideo(World, "", "tick", <<>>),
                      NewTask("tick", "", Null, i), order), i, pend)
  /\ Spend

(***************************************************************************)
(* The state after startServer: the default room exists                    *)
(* (ensureDefaultRoom L364-373), nobody is connected.                      *)
(***************************************************************************)
EmptyKv ==
  [all |-> [r \in Rooms |-> None], meta |-> [r \in Rooms |-> None],
   metaExp |-> [r \in Rooms |-> 0],
   users |-> [r \in Rooms |-> {}], video |-> [r \in Rooms |-> None],
   cursors |-> [r \in Rooms |-> [u \in Sessions |-> None]],
   rate |-> [a \in Actions |-> [u \in Sessions |-> NoCounter]]]

EmptyLoc ==
  [rooms |-> [r \in Rooms |-> None], users |-> [r \in Rooms |-> {}],
   video |-> [r \in Rooms |-> 0], heap |-> <<>>,
   buckets |-> [a \in Actions |-> [u \in Sessions |->
                  [count |-> 0, resetAt |-> 0]]]]

\* cursorBatches, reactionBatches and reactionCounter are process memory:
\* one of each per hub instance.  phase is the life of the process: "up",
\* "closing" once SIGTERM has arrived, "down" after process.exit.  posts
\* holds the POST /time requests whose body is still being read.
EmptyHub ==
  [i \in Instances |->
     [cursorBatches |-> [r \in Rooms |-> <<>>],
      reactionBatches |-> [r \in Rooms |-> <<>>],
      reactionCounter |-> 0,
      phase |-> "up",
      posts |-> {},
      connectionAttempts |-> [ip \in Addresses |-> <<>>]]]

EmptyObs ==
  [errs |-> {}, denied |-> <<>>, videoLog |-> <<>>, deleted |-> [r \in Rooms |-> "no"],
   videoState |-> [r \in Rooms |-> None],
   newest |-> [r \in Rooms |-> None],
   toSock |-> [u \in Sessions |-> <<>>],
   admitted |-> [i \in Instances |-> [ip \in Addresses |-> <<>>]],
   rejected |-> [i \in Instances |-> [ip \in Addresses |-> 0]],
   cursorsBatch |-> [r \in Rooms |-> <<>>],
   reactionsBatch |-> [r \in Rooms |-> <<>>],
   reacted |-> <<>>, reactionsOut |-> [r \in Rooms |-> <<>>],
   reactionFlushes |-> 0,
   cursorSent |-> [u \in Sessions |-> None],
   received |-> <<>>,
   failedAt |-> [r \in Rooms |-> Null],
   responses |-> <<>>,
   pausedLast |-> [r \in Rooms |-> FALSE],
   measure |-> None,
   left |-> [r \in Rooms |-> [u \in Sessions |-> FALSE]],
   pausedAt |-> [r \in Rooms |-> None], resumed |-> [r \in Rooms |-> None],
   cursorOf |-> [r \in Rooms |-> [u \in Sessions |-> None]],
   accepted |-> [r \in Rooms |-> [u \in Sessions |-> None]],
   bcast |-> [r \in Rooms |-> 0], flushes |-> 0,
   sync |-> [u \in Sessions |-> None],
   probe |-> "message", allowedNow |-> 0, allowedPrev |-> 0,
   epoch |-> [r \in Rooms |-> 0]]

InitStore(up) ==
  /\ redisUp = up
  /\ kv = IF up THEN [EmptyKv EXCEPT !.all[DEFAULT_ROOM_ID] = Some(LobbyRoomData(0)),
                                    !.meta[DEFAULT_ROOM_ID] = Some(LobbyRoomData(0)),
                                    !.metaExp[DEFAULT_ROOM_ID] = RoomTtlMs]
          ELSE EmptyKv
  /\ loc = IF up THEN EmptyLoc
           ELSE [EmptyLoc EXCEPT !.rooms[DEFAULT_ROOM_ID] = Some(LobbyRoomData(0))]

Init ==
  /\ now = 0
  /\ \E up \in BOOLEAN : InitStore(up)
  /\ sock = [s \in Sessions |-> NoSock]
  /\ pend = [i \in Instances |-> <<>>]
  /\ hub = EmptyHub
  /\ obs = EmptyObs
  /\ budget = MaxEvents

\* One session's life on a hub whose timers run: connect, messages,
\* disconnect, the empty-room sweep, the clock.
Lifecycle == {"u1"}

Next ==
  \/ \E s \in Lifecycle, r \in Rooms : Connect(s, r)
  \/ \E s \in Lifecycle, r \in Rooms : RoomJoin(s, r)
  \/ \E s \in Lifecycle : RoomLeave(s)
  \/ \E s \in Lifecycle : Heartbeat(s)
  \/ \E s \in Lifecycle : Disconnect(s)
  \/ \E i \in Instances, o \in RoomOrders : Sweep(i, o)
  \/ \E i \in Instances : Resume(i)
  \/ Tick(TickMs)

Spec == Init /\ [][Next]_vars

\* Two sessions, each on its own instance when the KV store is connected,
\* connect and disconnect concurrently.
NextRace ==
  \/ \E s \in Sessions, r \in Rooms : Connect(s, r)
  \/ \E s \in Sessions : Disconnect(s)
  \/ \E i \in Instances : Resume(i)
  \/ Tick(TickMs)

SpecRace == Init /\ [][NextRace]_vars

\* The reap timer L606-609 as it runs for as long as the process does: a
\* firing is not counted against the event budget.
Reap(i, order) ==
  /\ CanStart("")
  /\ redisUp \/ i = "i1"
  /\ Commit(cleanupEmptyRooms(World, NewTask("cleanup", "", Null, i), order),
            i, pend)
  /\ UNCHANGED budget

\* One session connects and disconnects while the reap timer runs; the
\* clock unit is the room TTL, so that a session can outlive the keys its
\* join wrote.
NextReap ==
  \/ \E s \in Lifecycle, r \in Rooms : Connect(s, r)
  \/ \E s \in Lifecycle : Disconnect(s)
  \/ \E i \in Instances, o \in RoomOrders : Reap(i, o)
  \/ \E i \in Instances : Resume(i)
  \/ Tick(RoomTtlMs)

\* Every pending store reply arrives and the timer keeps firing.
FairReap ==
  /\ \A i \in Instances : WF_vars(Resume(i))
  /\ WF_vars(\E i \in Instances, o \in RoomOrders : Reap(i, o))

SpecReap == Init /\ [][NextReap]_vars /\ FairReap

(***************************************************************************)
(* The connection gate.  Earlier connections from address ip1, of clients  *)
(* that have gone since, were admitted by instance i1 at time 0: none, one *)
(* less than the threshold, or as many as the threshold.                   *)
(***************************************************************************)
Stamps(n) == [k \in 1..n |-> 0]

InitConn ==
  /\ now = 0
  /\ \E up \in BOOLEAN : InitStore(up)
  /\ sock = [s \in Sessions |-> NoSock]
  /\ pend = [i \in Instances |-> <<>>]
  /\ \E n \in {0, ConnLimit - 1, ConnLimit} :
       /\ hub = [EmptyHub EXCEPT
                   !["i1"].connectionAttempts["ip1"] = Stamps(n)]
       /\ obs = [EmptyObs EXCEPT !.admitted["i1"]["ip1"] = Stamps(n)]
  /\ budget = MaxAttempts

\* The connection handler of instance i calls checkConnectionLimit for a
\* connection from address ip.
CheckConnectionLimit(i, ip) ==
  /\ budget > 0
  /\ redisUp \/ i = "i1"
  /\ LET g == ConnectionGate(World, i, ip) IN
       /\ hub' = g.w.hub
       /\ obs' = g.w.obs
  /\ Spend
  /\ UNCHANGED <<now, redisUp, kv, loc, sock, pend>>

\* setInterval L320-330 on instance i.
SweepConnections(i) ==
  /\ budget > 0
  /\ redisUp \/ i = "i1"
  /\ hub' = [hub EXCEPT ![i].connectionAttempts =
                          [ip \in Addresses |-> Recent(@[ip], now)]]
  /\ Spend
  /\ UNCHANGED <<now, redisUp, kv, loc, sock, pend, obs>>

NextConn ==
  \/ \E i \in Instances, ip \in Addresses : CheckConnectionLimit(i, ip)
  \/ \E i \in Instances : SweepConnections(i)
  \/ Tick(ConnWindowMs \div 2)

SpecConn == InitConn /\ [][NextConn]_vars

\* Both sessions connect, through the gate, and disconnect.
NextGate ==
  \/ \E s \in Sessions, r \in Rooms : Connect(s, r)
  \/ \E s \in Sessions : Disconnect(s)
  \/ \E i \in Instances : Resume(i)

SpecGate == InitConn /\ [][NextGate]_vars

\* generateUserId L146-148 returns "user_" and up to seven base-36 digits
\* of Math.random(): UserIds stands for the values it can return, and
\* every connection draws one.  Only the identification is followed here:
\* the entries the handlers write stay keyed by session.
UserIds == {"user_a", "user_b"}

NextIds ==
  \/ \E s \in Sessions, r \in Rooms, userId \in UserIds :
       Connection(s, r, userId)
  \/ \E s \in Sessions : Disconnect(s)
  \/ \E i \in Instances : Resume(i)

SpecIds == Init /\ [][NextIds]_vars

(***************************************************************************)
(* The message specification: both sessions have connected and joined      *)
(* room "lobby1" at time 0.  In one initial state nothing else has         *)
(* happened; in the other u1 has, also at time 0, sent as many messages of *)
(* every rate-limited action as its cap admits (room:join "lobby1",        *)
(* video:pause, cursor:move (1, 1), reaction:send, time:sync), and the     *)
(* accumulators have been flushed.                                         *)
(***************************************************************************)
MsgRoom == "lobby1"

JoinedSock ==
  [st |-> "open", currentRoom |-> MsgRoom, registered |-> TRUE,
   io |-> {MsgRoom}]

SentBy(s, a, pre) ==
  IF pre /\ s = "u1" /\ a # "message" THEN LIMITS[a].max
  ELSE IF a = "roomJoin" THEN 1 ELSE 0

RedisCounter(n, a) ==
  IF n = 0 THEN NoCounter
  ELSE [count |-> n, exp |-> WindowSeconds(a) * 1000]

LocalCounter(n, a) ==
  [count |-> n, resetAt |-> IF n = 0 THEN 0 ELSE LIMITS[a].windowMs]

SentCursor == [userId |-> "u1", x |-> 1, y |-> 1, timestamp |-> 0]

JoinedKv(pre) ==
  [EmptyKv EXCEPT
     !.all[DEFAULT_ROOM_ID] = Some(LobbyRoomData(0)),
     !.meta[DEFAULT_ROOM_ID] = Some(LobbyRoomData(0)),
     !.all[MsgRoom] = Some(JoinRoomData(MsgRoom, "u1", 0)),
     !.meta[MsgRoom] = Some(JoinRoomData(MsgRoom, "u1", 0)),
     !.metaExp = [r \in Rooms |-> RoomTtlMs],
     !.users[MsgRoom] = Sessions,
     !.video[MsgRoom] = IF pre THEN Some(getDefaultVideoState(0)) ELSE None,
     !.cursors[MsgRoom]["u1"] = IF pre THEN Some(SentCursor) ELSE None,
     !.rate = [a \in Actions |-> [u \in Sessions |->
                 RedisCounter(SentBy(u, a, pre), a)]]]

JoinedLoc(pre) ==
  [EmptyLoc EXCEPT
     !.rooms[DEFAULT_ROOM_ID] = Some(LobbyRoomData(0)),
     !.rooms[MsgRoom] = Some(JoinRoomData(MsgRoom, "u1", 0)),
     !.users[MsgRoom] = Sessions,
     !.heap = IF pre THEN <<getDefaultVideoState(0)>> ELSE <<>>,
     !.video[MsgRoom] = IF pre THEN 1 ELSE 0,
     !.buckets = [a \in Actions |-> [u \in Sessions |->
                    LocalCounter(SentBy(u, a, pre), a)]]]

InitMsg ==
  /\ now = 0
  /\ redisUp \in BOOLEAN
  /\ \E pre \in BOOLEAN :
       /\ kv = IF redisUp THEN JoinedKv(pre) ELSE EmptyKv
       /\ loc = IF redisUp THEN EmptyLoc ELSE JoinedLoc(pre)
       /\ hub = [EmptyHub EXCEPT !["i1"].reactionCounter =
                                   IF pre THEN LIMITS["reaction"].max ELSE 0]
       /\ obs = [EmptyObs EXCEPT !.cursorOf[MsgRoom]["u1"] =
                                   IF pre THEN Some(SentCursor) ELSE None]
  /\ sock = [s \in Sessions |-> JoinedSock]
  /\ pend = [i \in Instances |-> <<>>]
  /\ budget = MaxEvents

Senders == {"u1"}
SeekTimes == {-5000, 120000, 600000}
Coords == {1, 2}

NextMsg ==
  \/ \E s \in Senders : VideoPlay(s)
  \/ \E s \in Senders : VideoPause(s)
  \/ \E s \in Senders, time \in SeekTimes : VideoSeek(s, time)
  \/ \E s \in Sessions, x \in Coords : CursorMove(s, x, 1)
  \/ \E s \in Senders : ReactionSend(s, "wow")
  \/ \E s \in Senders : TimeSync(s, 7)
  \/ \E s \in Senders : RoomJoin(s, MsgRoom)
  \/ \E i \in Instances : CursorFlush(i)
  \/ \E i \in Instances : ReactionFlush(i)
  \/ \E i \in Instances, o \in RoomOrders : VideoTick(i, o)
  \/ \E i \in Instances : Resume(i)
  \/ Tick(StepMs)

SpecMsg == InitMsg /\ [][NextMsg]_vars

\* A room created through the room manager with the option maxUsers
\* (createRoom L98-105) set to SmallMaxUsers, which two sessions then join.
SmallMaxUsers == 1

SmallRoomData ==
  RoomData(MsgRoom, "u2", "Room " \o MsgRoom, SmallMaxUsers, 0)

InitCap ==
  /\ now = 0
  /\ redisUp \in BOOLEAN
  /\ kv = IF redisUp
          THEN [EmptyKv EXCEPT !.all[DEFAULT_ROOM_ID] = Some(LobbyRoomData(0)),
                               !.meta[DEFAULT_ROOM_ID] = Some(LobbyRoomData(0)),
                               !.all[MsgRoom] = Some(SmallRoomData),
                               !.meta[MsgRoom] = Some(SmallRoomData),
                               !.metaExp = [r \in Rooms |-> RoomTtlMs]]
          ELSE EmptyKv
  /\ loc = IF redisUp THEN EmptyLoc
           ELSE [EmptyLoc EXCEPT !.rooms[DEFAULT_ROOM_ID] = Some(LobbyRoomData(0)),
                                 !.rooms[MsgRoom] = Some(SmallRoomData)]
  /\ sock = [s \in Sessions |-> NoSock]
  /\ pend = [i \in Instances |-> <<>>]
  /\ hub = EmptyHub
  /\ obs = EmptyObs
  /\ budget = MaxEvents

NextCap ==
  \/ \E s \in Sessions : Connect(s, MsgRoom)
  \/ \E s \in Sessions, r \in Rooms : RoomJoin(s, r)
  \/ \E i \in Instances : Resume(i)

SpecCap == InitCap /\ [][NextCap]_vars

\* A session that sends room-scoped messages and switches between the
\* rooms while the flush timers run.
NextScope ==
  \/ \E s \in Senders : VideoPlay(s)
  \/ \E s \in Senders : VideoPause(s)
  \/ \E s \in Senders : VideoSeek(s, 120000)
  \/ \E s \in Senders, x \in Coords : CursorMove(s, x, 1)
  \/ \E s \in Senders : ReactionSend(s, "wow")
  \/ \E s \in Senders, r \in Rooms : RoomJoin(s, r)
  \/ \E i \in Instances : CursorFlush(i)
  \/ \E i \in Instances : ReactionFlush(i)
  \/ \E i \in Instances : Resume(i)

SpecScope == InitMsg /\ [][NextScope]_vars

\* Sessions that move their cursor and leave the room while the cursor
\* flush timer runs.
NextLeave ==
  \/ \E s \in Sessions, x \in Coords : CursorMove(s, x, 1)
  \/ \E s \in Sessions : RoomLeave(s)
  \/ \E i \in Instances : CursorFlush(i)
  \/ \E i \in Instances : Resume(i)

SpecLeave == InitMsg /\ [][NextLeave]_vars

(***************************************************************************)
(* The rate limiter specification: user u1 calls checkRateLimit for one    *)
(* action (obs.probe) again and again while the clock advances in steps of *)
(* half the action's window.  obs.allowedNow counts the calls allowed at   *)
(* the current instant and obs.allowedPrev those allowed half a window     *)
(* earlier: together, the calls allowed in the half-open interval of one   *)
(* window length that ends just after now.                                 *)
(***************************************************************************)
Limited == {"cursor", "reaction", "sync", "roomJoin", "videoControl"}

HalfWindow(a) == LIMITS[a].windowMs \div 2

InitRate ==
  /\ now = 0
  /\ \E up \in BOOLEAN : InitStore(up)
  /\ sock = [s \in Sessions |-> NoSock]
  /\ pend = [i \in Instances |-> <<>>]
  /\ hub = EmptyHub
  /\ \E a \in Limited : obs = [EmptyObs EXCEPT !.probe = a]
  /\ budget = MaxCalls

\* A handler of session s calls checkRateLimit(s, obs.probe).
CheckRateLimit(s) ==
  /\ CanStart(s)
  /\ budget > 0
  /\ Commit(CallRateLimit(World, NewTask(obs.probe, s, Null,
                                         InstOf(s, redisUp))),
            InstOf(s, redisUp), pend)
  /\ Spend

\* Half a window passes.
HalfWindowPasses ==
  /\ budget > 0
  /\ now' = now + HalfWindow(obs.probe)
  /\ obs' = [obs EXCEPT !.allowedPrev = obs.allowedNow, !.allowedNow = 0]
  /\ Spend
  /\ UNCHANGED <<redisUp, kv, loc, sock, pend, hub>>

NextRate ==
  \/ CheckRateLimit("u1")
  \/ \E i \in Instances : Resume(i)
  \/ HalfWindowPasses

SpecRate == InitRate /\ [][NextRate]_vars

(***************************************************************************)
(* The room manager specification: callers use lib/roomManager directly on *)
(* the stores of the message specification's initial states.               *)
(***************************************************************************)
ApiTask(kind, s, r) == NewTask(kind, s, r, InstOf(s, redisUp))

CanCall == CanStart("") /\ budget > 0

CreateRoom(r, s) ==
  /\ CanCall
  /\ Commit(createRoom(World, ApiTask("createRoom", s, r)),
            InstOf(s, redisUp), pend)
  /\ Spend

AddUserToRoom(r, s) ==
  /\ CanCall
  /\ Commit(CallAddUser(World, ApiTask("addUserToRoom", s, r)),
            InstOf(s, redisUp), pend)
  /\ Spend

\* setVideoState(r, state) with a caller's own state object.
SetVideoState(r, s, st) ==
  /\ CanCall
  /\ LET w == IF redisUp THEN World
              ELSE [World EXCEPT !.loc.heap = Append(@, st)]
         t == [ApiTask("setVideoState", s, r) EXCEPT
                 !.vs = Some(st), !.ref = Len(w.loc.heap)]
     IN Commit(setVideoState(w, t, 0), InstOf(s, redisUp), pend)
  /\ Spend

UpdateVideoTime(r, s) ==
  /\ CanCall
  /\ Commit(updateVideoTime(World, ApiTask("updateVideoTime", s, r)),
            InstOf(s, redisUp), pend)
  /\ Spend

UpdateCursor(r, s, x) ==
  /\ CanCall
  /\ Commit(updateCursor(World, ApiTask("updateCursor", s, r),
                         [userId |-> s, x |-> x, y |-> 1, timestamp |-> now]),
            InstOf(s, redisUp), pend)
  /\ Spend

DeleteRoom(r, s) ==
  /\ CanCall
  /\ Commit(deleteRoom(World, ApiTask("deleteRoom", s, r)),
            InstOf(s, redisUp), pend)
  /\ Spend

PlayingAt(ct, t) ==
  [isPlaying |-> TRUE, currentTime |-> ct, duration |-> DefaultDuration,
   serverTimestamp |-> t, lastUpdateTime |-> t]

InitRooms == InitMsg

NextRooms ==
  \/ \E r \in Rooms, s \in Sessions : CreateRoom(r, s)
  \/ \E r \in Rooms, s \in Sessions : AddUserToRoom(r, s)
  \/ \E r \in Rooms : SetVideoState(r, "u1", PlayingAt(120000, now))
  \/ \E r \in Rooms : UpdateVideoTime(r, "u1")
  \/ \E r \in Rooms : UpdateCursor(r, "u1", 2)
  \/ \E r \in Rooms, s \in Sessions : DeleteRoom(r, s)
  \/ \E i \in Instances : Resume(i)
  \/ Tick(StepMs)

SpecRooms == InitRooms /\ [][NextRooms]_vars

\* The cursor functions of the room manager: updateCursor, the
\* removeUserFromRoom and removeCursor of a room:leave, deleteRoom.
NextCursors ==
  \/ \E r \in Rooms, s \in Sessions, x \in Coords : UpdateCursor(r, s, x)
  \/ \E s \in Sessions : RoomLeave(s)
  \/ \E r \in Rooms, s \in Sessions : DeleteRoom(r, s)
  \/ \E i \in Instances : Resume(i)

SpecCursors == InitRooms /\ [][NextCursors]_vars

\* The store answers a command of deleteRoom L153-157 with an error: the
\* command has no effect, the await throws and, deleteRoom having no
\* try/catch, the call ends there.  obs.failedAt[r] names the command; the
\* call is noted as failed if no write to the room took effect since it
\* began.
DeleteCommands == {"dl_all", "dl_meta", "dl_users", "dl_video", "dl_cursors"}

FailDelete(i) ==
  /\ pend[i] # <<>>
  /\ Head(pend[i]).kind = "deleteRoom"
  /\ Head(pend[i]).pc \in DeleteCommands
  /\ LET t == Head(pend[i]) IN
     obs' = IF obs.epoch[t.room] = t.n /\ obs.deleted[t.room] = "running"
            THEN [obs EXCEPT !.deleted[t.room] = "failed",
                             !.failedAt[t.room] = t.pc]
            ELSE obs
  /\ pend' = [pend EXCEPT ![i] = Tail(@)]
  /\ UNCHANGED <<now, redisUp, kv, loc, sock, hub, budget>>

NextFail ==
  \/ NextRooms
  \/ \E i \in Instances : FailDelete(i)

SpecFail == InitRooms /\ [][NextFail]_vars

(***************************************************************************)
(* The video tick specification: both sessions sit in room "lobby1", whose *)
(* stored video state is absent, paused at 0, playing from 120 s or        *)
(* playing 200 ms before the end, last updated at time 0.  Only the 500 ms *)
(* video tick of each instance and the clock run: no control message       *)
(* arrives.                                                                *)
(***************************************************************************)
StoredVideo ==
  {None, Some(getDefaultVideoState(0)), Some(PlayingAt(120000, 0)),
   Some(PlayingAt(DefaultDuration * 1000 - 200, 0))}

InitVideo ==
  /\ now = 0
  /\ redisUp \in BOOLEAN
  /\ \E v \in StoredVideo :
       /\ kv = IF redisUp THEN [JoinedKv(FALSE) EXCEPT !.video[MsgRoom] = v]
               ELSE EmptyKv
       /\ loc = IF redisUp THEN EmptyLoc
                ELSE [JoinedLoc(FALSE) EXCEPT
                        !.heap = v,
                        !.video[MsgRoom] = Len(v)]
  /\ hub = EmptyHub
  /\ sock = [s \in Sessions |-> JoinedSock]
  /\ pend = [i \in Instances |-> <<>>]
  /\ obs = EmptyObs
  /\ budget = MaxEvents

NextVideo ==
  \/ \E i \in Instances, o \in RoomOrders : VideoTick(i, o)
  \/ \E i \in Instances : Resume(i)
  \/ Tick(StepMs)

SpecVideo == InitVideo /\ [][NextVideo]_vars

\* The video tick of several instances around the end of the video: the
\* hub is connected to the KV store and lobby1 plays, 200 ms before the end.
InitTicks ==
  /\ now = 0
  /\ redisUp = TRUE
  /\ kv = [JoinedKv(FALSE) EXCEPT
            !.video[MsgRoom] = Some(PlayingAt(DefaultDuration * 1000 - 200, 0))]
  /\ loc = EmptyLoc
  /\ hub = EmptyHub
  /\ sock = [s \in Sessions |-> JoinedSock]
  /\ pend = [i \in Instances |-> <<>>]
  /\ obs = EmptyObs
  /\ budget = MaxTicks

SpecTicks == InitTicks /\ [][NextVideo]_vars

\* The video control specification: from the same states, session u1
\* sends video:play, video:pause and video:seek while the ticks run.
NextControl ==
  \/ \E s \in Senders : VideoPlay(s)
  \/ \E s \in Senders : VideoPause(s)
  \/ \E s \in Senders, time \in SeekTimes : VideoSeek(s, time)
  \/ \E i \in Instances, o \in RoomOrders : VideoTick(i, o)
  \/ \E i \in Instances : Resume(i)
  \/ Tick(StepMs)

SpecControl == InitVideo /\ [][NextControl]_vars

(***************************************************************************)
(* The room-scoped messages of a session without a room: u2 sits in        *)
(* "lobby1"; u1 has connected and has left its room (room:leave), so its   *)
(* currentRoom is null, and can join again.                                *)
(***************************************************************************)
LeftSock ==
  [st |-> "open", currentRoom |-> Null, registered |-> TRUE, io |-> {}]

\* The kinds of L390-532, whose handlers check the rate limit.
DroppedKinds ==
  {"video:play", "video:pause", "video:seek", "cursor:move", "reaction:send"}

RoomScopedKinds == DroppedKinds \cup {"heartbeat"}

\* The payloads of the messages of one kind.
ArgsOf(kind) ==
  CASE kind = "video:seek" -> {<<time>> : time \in SeekTimes}
    [] kind = "cursor:move" -> {<<x, 1>> : x \in Coords}
    [] kind = "reaction:send" -> {<<"wow">>}
    [] OTHER -> {<<>>}

\* socket.on(kind) of L390-545 for a room-scoped kind: obs.received lists
\* the messages with the session's currentRoom at their arrival.
Inbound(s, kind, arg) ==
  /\ CanSend(s)
  /\ LET w == [World EXCEPT !.obs.received =
                  Append(@, <<s, kind, sock[s].currentRoom>>)]
         t == StartMsg(s, kind, arg)
     IN Commit(IF kind = "heartbeat" THEN heartbeat(w, t)
               ELSE roomScoped(w, t),
               InstOf(s, redisUp), pend)
  /\ Spend

InitNoRoom ==
  /\ now = 0
  /\ redisUp \in BOOLEAN
  /\ kv = IF redisUp THEN [JoinedKv(FALSE) EXCEPT !.users[MsgRoom] = {"u2"}]
          ELSE EmptyKv
  /\ loc = IF redisUp THEN EmptyLoc
           ELSE [JoinedLoc(FALSE) EXCEPT !.users[MsgRoom] = {"u2"}]
  /\ hub = EmptyHub
  /\ sock = [s \in Sessions |-> IF s = "u1" THEN LeftSock ELSE JoinedSock]
  /\ pend = [i \in Instances |-> <<>>]
  /\ obs = EmptyObs
  /\ budget = MaxEvents

NextNoRoom ==
  \/ \E s \in Sessions, kind \in RoomScopedKinds :
       \E arg \in ArgsOf(kind) : Inbound(s, kind, arg)
  \/ RoomJoin("u1", MsgRoom)
  \/ \E i \in Instances : CursorFlush(i)
  \/ \E i \in Instances : ReactionFlush(i)
  \/ \E i \in Instances : Resume(i)
  \/ Tick(StepMs)

SpecNoRoom == InitNoRoom /\ [][NextNoRoom]_vars

(***************************************************************************)
(* Graceful shutdown, server.ts L615-631, of instance i of the message     *)
(* specification.                                                          *)
(***************************************************************************)
\* io.close() L621 disconnects the sockets of instance i; the disconnect
\* listener of each (L551-555) runs leaveRoom up to its first await.
RECURSIVE ioClose(_, _, _)
ioClose(w, i, ss) ==
  IF ss = {} THEN [w |-> w, t |-> <<>>]
  ELSE LET s == CHOOSE x \in ss : TRUE
           open == w.sock[s].st = "open" /\ InstOf(s, w.up) = i
           w1 == IF open THEN [w EXCEPT !.sock[s].st = "closed"] ELSE w
           r == IF open /\ w.sock[s].registered
                THEN leaveRoom(w1, NewTask("disconnect", s, Null, i))
                ELSE Fin(w1)
           rest == ioClose(r.w, i, ss \ {s})
       IN [w |-> rest.w, t |-> r.t \o rest.t]

\* process.on("SIGTERM") L615-624 up to `await closeRedis()`: connected to
\* the KV store, closeRedis sends QUIT (redis.ts L131) on the connection,
\* behind the commands the disconnect listeners have just sent; standalone
\* it has nothing to close.
Shutdown(i) ==
  /\ budget > 0
  /\ hub[i].phase = "up"
  /\ CanStart("")
  /\ redisUp \/ i = "i1"
  /\ LET c == ioClose(World, i, Sessions)
         quit == At(NewTask("shutdown", "", Null, i), "quit")
     IN Commit([w |-> [c.w EXCEPT !.hub[i].phase = "closing"],
                t |-> IF redisUp THEN c.t \o <<quit>> ELSE c.t],
               i, pend)
  /\ Spend

\* L624-630: closeRedis returns and process.exit(0) ends the process.
\* Connected, that is when the store answers QUIT and closes the
\* connection: a command a handler would send after QUIT is never
\* processed.  Standalone, the callback of httpServer.close runs once the
\* handlers, which only yield, have run to their end.  What the
\* accumulators of the process hold at that moment is left in hub[i] and
\* is never sent.
Exit(i) ==
  /\ hub[i].phase = "closing"
  /\ IF redisUp THEN pend[i] # <<>> /\ Head(pend[i]).pc = "quit"
     ELSE pend[i] = <<>>
  /\ hub' = [hub EXCEPT ![i].phase = "down"]
  /\ pend' = [pend EXCEPT ![i] = <<>>]
  /\ UNCHANGED <<now, redisUp, kv, loc, sock, obs, budget>>

NextShutdown ==
  \/ \E s \in Sessions, x \in Coords : CursorMove(s, x, 1)
  \/ \E s \in Sessions : ReactionSend(s, "wow")
  \/ \E i \in Instances : CursorFlush(i)
  \/ \E i \in Instances : ReactionFlush(i)
  \/ \E i \in Instances : Shutdown(i)
  \/ \E i \in Instances : Exit(i)
  \/ \E i \in Instances : Resume(i)

SpecShutdown == InitMsg /\ [][NextShutdown]_vars

(***************************************************************************)
(* The time-exchange endpoint, src/app/api/time/route.ts, served by the    *)
(* hub process (server.ts L195-199).                                       *)
(***************************************************************************)
\* Request bodies: text that is not JSON, the JSON value null, and JSON
\* objects with or without a clientSendTime.
ClientTimes == {1000, 0 - 5}

Bodies ==
  {[json |-> j, has |-> FALSE, clientSendTime |-> 0] :
     j \in {"invalid", "null", "object"}}
  \cup {[json |-> "object", has |-> TRUE, clientSendTime |-> c] :
          c \in ClientTimes}

\* `await request.json()` and the destructuring of L29-30: a body that is
\* not JSON makes request.json() throw and null makes the destructuring
\* throw; a key the object lacks reads as undefined.
ReadClientSendTime(body) ==
  IF body.json # "object" THEN [threw |-> TRUE, clientSendTime |-> None]
  ELSE [threw |-> FALSE,
        clientSendTime |-> IF body.has THEN Some(body.clientSendTime)
                           ELSE None]

\* A faulty response that subtracts the wrong way round; C26 must tell it
\* from timeResponse.
timeResponseSwapped(method, clientSendTime, serverReceiveTime, serverSendTime) ==
  [method |-> method, status |-> 200, clientSendTime |-> clientSendTime,
   serverReceiveTime |-> serverReceiveTime,
   serverSendTime |-> serverSendTime,
   serverProcessingTime |-> serverReceiveTime - serverSendTime]

\* NextResponse.json of L13-22 and L34-43; JSON leaves an undefined
\* clientSendTime out.
timeResponse(method, clientSendTime, serverReceiveTime, serverSendTime) ==
  [method |-> method, status |-> 200, clientSendTime |-> clientSendTime,
   serverReceiveTime |-> serverReceiveTime,
   serverSendTime |-> serverSendTime,
   serverProcessingTime |-> serverSendTime - serverReceiveTime]

\* L44-49.
errorResponse ==
  [method |-> "POST", status |-> 400, clientSendTime |-> None,
   serverReceiveTime |-> 0, serverSendTime |-> 0, serverProcessingTime |-> 0]

\* obs.responses lists the responses with their requests.
Respond(o, body, response) ==
  [o EXCEPT !.responses = Append(@, [body |-> body, response |-> response])]

\* GET L3-23: two readings of the clock with no await between them; the
\* clock may step by d from one to the other.
TimeGet(i, d) ==
  /\ CanFire(i)
  /\ now' = now + d
  /\ obs' = Respond(obs, [json |-> "none", has |-> FALSE, clientSendTime |-> 0],
                    timeResponse("GET", None, now, now + d))
  /\ Spend
  /\ UNCHANGED <<redisUp, kv, loc, sock, pend, hub>>

\* POST L25-29, up to `await request.json()`.
TimePost(i, body) ==
  /\ CanFire(i)
  /\ hub' = [hub EXCEPT ![i].posts =
               @ \cup {[body |-> body, serverReceiveTime |-> now]}]
  /\ Spend
  /\ UNCHANGED <<now, redisUp, kv, loc, sock, pend, obs>>

\* POST L29-49: the body has been read.
TimePostReply(i) ==
  /\ \E p \in hub[i].posts :
       LET read == ReadClientSendTime(p.body) IN
       /\ hub' = [hub EXCEPT ![i].posts = @ \ {p}]
       /\ obs' = Respond(obs, p.body,
                         IF read.threw THEN errorResponse
                         ELSE timeResponse("POST", read.clientSendTime,
                                           p.serverReceiveTime, now))
  /\ UNCHANGED <<now, redisUp, kv, loc, sock, pend, budget>>

\* The endpoint next to a session that connects and disconnects.
NextTime ==
  \/ \E i \in Instances, d \in {0, 1} : TimeGet(i, d)
  \/ \E i \in Instances, body \in Bodies : TimePost(i, body)
  \/ \E i \in Instances : TimePostReply(i)
  \/ \E s \in Lifecycle, r \in Rooms : Connect(s, r)
  \/ \E s \in Lifecycle : Disconnect(s)
  \/ \E i \in Instances : Resume(i)
  \/ Tick(StepMs)

SpecTime == Init /\ [][NextTime]_vars

(***************************************************************************)
(* The client's measurement, src/app/hooks/useTimeSync.ts performSync      *)
(* L73-119, against POST /api/time.  now is the server's clock; the        *)
(* client's clock reads now - theta.  The request travels for d1, the      *)
(* server takes p between its two clock readings, the response travels for *)
(* d2.  Times are small integers of milliseconds.                          *)
(***************************************************************************)
Thetas == {0 - 300, 0, 250}
Delays == {0, 20, 45}
Processing == {0, 3}
StartTimes == {1000, 5000}

\* A faulty measurement that takes the whole exchange for the round trip;
\* C40 must tell it from performSync.
performSyncTotal(t1, data, t4) ==
  LET t2 == data.serverReceiveTime
      t3 == data.serverSendTime
  IN [offsetTimes2 |-> (t2 - t1) + (t3 - t4),
      roundTripTime |-> t4 - t1,
      t1 |-> t1, t2 |-> t2, t3 |-> t3, t4 |-> t4]

\* performSync L95-114 on the response data.  offset is a half-integer in
\* the source (a division by 2 of a float); the model keeps twice its
\* value.
performSync(t1, data, t4) ==
  LET t2 == data.serverReceiveTime
      t3 == data.serverSendTime
  IN [offsetTimes2 |-> (t2 - t1) + (t3 - t4),
      roundTripTime |-> (t4 - t1) - (t3 - t2),
      t1 |-> t1, t2 |-> t2, t3 |-> t3, t4 |-> t4]

InitSync ==
  /\ now \in StartTimes
  /\ \E up \in BOOLEAN : InitStore(up)
  /\ sock = [s \in Sessions |-> NoSock]
  /\ pend = [i \in Instances |-> <<>>]
  /\ hub = EmptyHub
  /\ \E theta \in Thetas, d1 \in Delays, d2 \in Delays, p \in Processing :
       obs = [EmptyObs EXCEPT !.measure =
                Some([phase |-> "idle", theta |-> theta, d1 |-> d1,
                      d2 |-> d2, p |-> p, t1 |-> 0, received |-> 0,
                      sent |-> 0, data |-> errorResponse,
                      result |-> performSync(0, errorResponse, 0)])]
  /\ budget = MaxEvents

\* L76-82: T1 is read and the request is sent.
SyncRequest ==
  LET m == The(obs.measure) IN
  /\ m.phase = "idle"
  /\ obs' = [obs EXCEPT !.measure =
               Some([m EXCEPT !.phase = "request", !.t1 = now - m.theta])]
  /\ UNCHANGED <<now, redisUp, kv, loc, sock, pend, hub, budget>>

\* The request arrives after d1 and route.ts POST L25-43 answers it, its
\* two clock readings p apart.
SyncServe ==
  LET m == The(obs.measure)
      serverReceiveTime == now + m.d1
      serverSendTime == serverReceiveTime + m.p
  IN
  /\ m.phase = "request"
  /\ now' = serverSendTime
  /\ obs' = [obs EXCEPT !.measure =
               Some([m EXCEPT !.phase = "response",
                              !.received = serverReceiveTime,
                              !.sent = serverSendTime,
                              !.data = timeResponse("POST", Some(m.t1),
                                                    serverReceiveTime,
                                                    serverSendTime)])]
  /\ UNCHANGED <<redisUp, kv, loc, sock, pend, hub, budget>>

\* The response arrives after d2: L85-114.
SyncReceive ==
  LET m == The(obs.measure)
      t4 == now + m.d2 - m.theta
  IN
  /\ m.phase = "response"
  /\ now' = now + m.d2
  /\ obs' = [obs EXCEPT !.measure =
               Some([m EXCEPT !.phase = "done",
                              !.result = performSync(m.t1, m.data, t4)])]
  /\ UNCHANGED <<redisUp, kv, loc, sock, pend, hub, budget>>

NextSync == SyncRequest \/ SyncServe \/ SyncReceive

SpecSync == InitSync /\ [][NextSync]_vars

(***************************************************************************)
(* Properties                                                              *)
(***************************************************************************)
\* The tasks of session s that are in flight.
TasksOf(s) ==
  {<<i, k>> \in Instances \X (1..MaxInflight + 1) :
     k <= Len(pend[i]) /\ pend[i][k].sid = s}

Member(s, r) == s \in getRoomUsers(World, r)

\* C1: in every reachable state, every session's currentRoom is null or
\* the session's user id is in the membership hash of that room.
C1_CurrentRoomIsMember ==
  \A s \in Sessions :
    sock[s].currentRoom = Null \/ Member(s, sock[s].currentRoom)

\* C4: once a session has disconnected and none of its handlers is still
\* running, its user id is in no room's membership hash.
C4_DisconnectCleansUp ==
  \A s \in Sessions :
    (sock[s].st = "closed" /\ TasksOf(s) = {})
      => \A r \in Rooms : ~Member(s, r)

\* C8: while a room exists, its createdAt and createdBy stay those of the
\* first writer, in the room's metadata and in the room listing.
FirstWriterWins(old, new) ==
  (IsSome(old) /\ IsSome(new)) =>
     /\ The(new).createdAt = The(old).createdAt
     /\ The(new).createdBy = The(old).createdBy

C8_CreateRoomFirstWriterWins ==
  [][\A r \in Rooms :
       /\ FirstWriterWins(kv.meta[r], kv.meta'[r])
       /\ FirstWriterWins(kv.all[r], kv.all'[r])
       /\ FirstWriterWins(loc.rooms[r], loc.rooms'[r])]_vars

\* C3: when session u1 has sent video:seek t and then video:play, neither
\* was rate limited, nothing else has touched the video and both handlers
\* have finished, the room is playing from the seek target.
C3_SeekThenPlay ==
  \A time \in SeekTimes :
    (/\ obs.videoLog = <<<<"u1", "video:seek", <<time>>>>,
                         <<"u1", "video:play", <<>>>>>>
     /\ obs.denied = <<>>
     /\ Inflight = 0)
      => LET st == getVideoState(World, MsgRoom) IN
         st.isPlaying /\ st.currentTime = SeekTarget(time, st)

\* The persisted VideoState of room r, if any.
Persisted(k, l, r) ==
  IF IsSome(k.video[r]) THEN k.video[r]
  ELSE IF l.video[r] # 0 THEN Some(l.heap[l.video[r]]) ELSE None

NotBefore(old, new) ==
  (IsSome(old) /\ IsSome(new))
    => The(new).serverTimestamp >= The(old).serverTimestamp

\* C10: per room, the persisted serverTimestamp never decreases from one
\* write to the next, and every video:state broadcast carries a
\* serverTimestamp not below that of the broadcast before it.
C10_ServerTimestampMonotone ==
  [][\A r \in Rooms :
       /\ NotBefore(Persisted(kv, loc, r), Persisted(kv', loc', r))
       /\ NotBefore(obs.videoState[r], obs'.videoState[r])]_vars

\* C6: every denied message is answered by error:ratelimit with the
\* message's action and retryIn = windowMs, sent to the session of the
\* message, and no session is sent an error:ratelimit without a denial.
C6_DenialEmitsError ==
  /\ \A k \in DOMAIN obs.denied :
       LET a == ActionOf(obs.denied[k][2]) IN
       <<obs.denied[k][1], a, LIMITS[a].windowMs>> \in obs.errs
  /\ \A e \in obs.errs :
       \E k \in DOMAIN obs.denied :
         obs.denied[k][1] = e[1] /\ ActionOf(obs.denied[k][2]) = e[2]

\* C7: the step in which a video:play, video:pause, video:seek,
\* cursor:move or reaction:send is denied leaves the persisted video
\* states, the persisted cursor hashes, the cursor and reaction
\* accumulators unchanged and broadcasts nothing.
C7_DeniedIsDropped ==
  [][(/\ Len(obs'.denied) > Len(obs.denied)
      /\ obs'.denied[Len(obs'.denied)][2] \in DroppedKinds)
       => /\ kv'.video = kv.video
          /\ kv'.cursors = kv.cursors
          /\ loc'.video = loc.video
          /\ loc'.heap = loc.heap
          /\ hub' = hub
          /\ obs'.bcast = obs.bcast
          /\ obs'.videoState = obs.videoState
          /\ obs'.cursorsBatch = obs.cursorsBatch
          /\ obs'.reactionsBatch = obs.reactionsBatch]_vars

\* C7 witness: a video control, a cursor move and a reaction have been
\* denied.
C7_Witness ==
  \A kind \in {"video:seek", "cursor:move", "reaction:send"} :
    \E k \in DOMAIN obs.denied : obs.denied[k][2] = kind

\* C5: a cursor flush of instance i emits, for every room with a non-empty
\* accumulator, a list with at most one entry per user id, each entry
\* being the last cursor accepted from that user for the room since the
\* previous flush, and leaves every accumulator of i empty.
C5_CursorBatch ==
  [][obs'.flushes # obs.flushes =>
       \A i \in Instances :
         hub'[i].cursorBatches # hub[i].cursorBatches =>
           \A r \in Rooms :
             LET e == obs'.cursorsBatch[r] IN
             /\ hub'[i].cursorBatches[r] = <<>>
             /\ Len(hub[i].cursorBatches[r]) > 0 =>
                  /\ \A j, k \in DOMAIN e :
                       e[j].userId = e[k].userId => j = k
                  /\ \A k \in DOMAIN e :
                       obs.accepted[r][e[k].userId] = Some(e[k])
                  /\ \A u \in Sessions :
                       (InstOf(u, redisUp) = i /\ IsSome(obs.accepted[r][u]))
                         => \E k \in DOMAIN e : e[k] = The(obs.accepted[r][u])]_vars

CursorCount(s) ==
  IF redisUp THEN kv.rate["cursor"][s].count
  ELSE loc.buckets["cursor"][s].count

\* C5 witness: two cursor moves of u1 were accepted and then flushed as
\* one entry.
C5_Witness ==
  /\ obs.flushes = 1
  /\ CursorCount("u1") = 2
  /\ Len(obs.cursorsBatch[MsgRoom]) = 1
  /\ obs.cursorsBatch[MsgRoom][1].x = 2

\* The calls allowed in the last window-long interval.
AllowedInInterval == obs.allowedNow + obs.allowedPrev

\* C2, as stated: in any interval of one window length at most max calls
\* of the probed action are allowed.
C2_AtMostCapPerInterval ==
  AllowedInInterval <= LIMITS[obs.probe].max

\* C2, amended: the limiter counts in fixed windows that open with the
\* first counted call, so at one instant at most max calls are allowed and
\* in an interval of one window length, which can straddle the end of one
\* window and the start of the next, at most 2 * max - 1.
C2_AtMostTwoWindows ==
  /\ obs.allowedNow <= LIMITS[obs.probe].max
  /\ AllowedInInterval <= 2 * LIMITS[obs.probe].max - 1

\* C2 witness: 2 * max - 1 reactions were allowed within one window length.
C2_Witness ==
  /\ obs.probe = "reaction"
  /\ AllowedInInterval = 2 * LIMITS["reaction"].max - 1

\* C9: for every room r for which a deleteRoom(r) has completed with no
\* write to r taking effect since that deleteRoom was called: getRoom(r)
\* is null, getRoomUsers(r) and getRoomCursors(r) are empty,
\* getVideoState(r) is the default state (paused, currentTime 0, duration
\* 596) and getAllRooms() does not list r, in both modes.
C9_DeletedRoomIsGone ==
  \A r \in Rooms :
    obs.deleted[r] = "done" =>
      /\ getRoom(World, r) = None
      /\ getRoomUsers(World, r) = {}
      /\ \A u \in Sessions : getRoomCursors(World, r)[u] = None
      /\ getVideoState(World, r) = getDefaultVideoState(now)
      /\ getDefaultVideoState(now).isPlaying = FALSE
      /\ getDefaultVideoState(now).currentTime = 0
      /\ getDefaultVideoState(now).duration = 596
      /\ r \notin getAllRooms(World)

\* Instance i's head task is resumed in this step.
Resumed(i) == pend'[i] # pend[i] /\ Len(pend'[i]) <= Len(pend[i])

\* The head task of instance i is an updateVideoTime whose write to the
\* store takes effect when it is resumed.
UpdateWrites(i) ==
  /\ pend[i] # <<>>
  /\ Head(pend[i]).ph = 1
  /\ Head(pend[i]).pc = (IF redisUp THEN "sv_set" ELSE "sv_get")

\* What updateVideoTime persists for a state st read at time at, but for
\* lastUpdateTime: currentTime (in ms) advanced by the elapsed time, capped
\* at the duration and back at 0 when it reaches the duration, if the state
\* is playing, unchanged if it is paused; isPlaying and duration as read;
\* serverTimestamp the time of the execution, between the read and the
\* write.
UpdatedButLast(st, at, wrote, wat) ==
  LET adv == st.currentTime + (at - st.lastUpdateTime)
      end == st.duration * 1000
  IN /\ st.isPlaying /\ adv < end => wrote.currentTime = adv
     /\ st.isPlaying /\ adv >= end => wrote.currentTime = 0
     /\ ~st.isPlaying => wrote.currentTime = st.currentTime
     /\ wrote.isPlaying = st.isPlaying
     /\ wrote.duration = st.duration
     /\ at <= wrote.serverTimestamp /\ wrote.serverTimestamp <= wat

\* C11, as stated: updateVideoTime(r), run at time at on a state st,
\* persists st with currentTime advanced (if playing: capped at the
\* duration, 0 when it reaches it; if paused: unchanged) and with
\* lastUpdateTime and serverTimestamp set to the time of the run, whether
\* the state is playing or paused.
C11_UpdateVideoTime ==
  [][\A i \in Instances :
       (UpdateWrites(i) /\ Resumed(i)) =>
          LET t == Head(pend[i])
              st == The(t.seen).st
              at == The(t.seen).at
              wrote == The(Persisted(kv', loc', t.room))
          IN /\ UpdatedButLast(st, at, wrote, now)
             /\ wrote.lastUpdateTime = at]_vars

\* C11, amended: as C11, but lastUpdateTime is set to the time of the run
\* only if the state is playing; a paused state keeps its lastUpdateTime.
C11_UpdateVideoTimePlaying ==
  [][\A i \in Instances :
       (UpdateWrites(i) /\ Resumed(i)) =>
          LET t == Head(pend[i])
              st == The(t.seen).st
              at == The(t.seen).at
              wrote == The(Persisted(kv', loc', t.room))
          IN /\ UpdatedButLast(st, at, wrote, now)
             /\ wrote.lastUpdateTime =
                  (IF st.isPlaying THEN at ELSE st.lastUpdateTime)]_vars

\* C11 witness: the room that played 200 ms before its end was advanced by
\* a tick 500 ms later and is back at 0, still playing.
C11_Witness ==
  /\ now = StepMs
  /\ Inflight = 0
  /\ LET st == getVideoState(World, MsgRoom) IN
     st.isPlaying /\ st.currentTime = 0 /\ st.lastUpdateTime = StepMs

\* C12: in every reachable state every room's persisted VideoState has
\* 0 <= currentTime <= duration (currentTime in ms, duration in seconds),
\* whatever video:play, video:pause, video:seek t and ticks have run or are
\* running.
C12_CurrentTimeInRange ==
  \A r \in Rooms :
    LET p == Persisted(kv, loc, r) IN
    IsSome(p) =>
      /\ 0 <= The(p).currentTime
      /\ The(p).currentTime <= The(p).duration * 1000

\* C12 witness: a seek beyond the end and a seek before the start were
\* both sent, and the room stands at the bound the last one was clamped to.
C12_Witness ==
  /\ Len(obs.videoLog) = 2
  /\ obs.videoLog[1] = <<"u1", "video:seek", <<600000>>>>
  /\ obs.videoLog[2] = <<"u1", "video:seek", <<0 - 5000>>>>
  /\ Inflight = 0
  /\ IsSome(Persisted(kv, loc, MsgRoom))
  /\ The(Persisted(kv, loc, MsgRoom)).currentTime \in {0, DefaultDuration * 1000}

\* clamp(t, 0, duration), in ms.
Clamp(time, duration) ==
  IF time < 0 THEN 0
  ELSE IF time > duration * 1000 THEN duration * 1000 ELSE time

\* The room's state after the accepted video:seek time: at the clamped
\* target, isPlaying as given, duration as it was.
SoughtTo(time, playing) ==
  LET st == getVideoState(World, MsgRoom) IN
  /\ st.currentTime = Clamp(time, DefaultDuration)
  /\ st.isPlaying = playing
  /\ st.duration = DefaultDuration

\* C13: an accepted video:seek t sets the room's currentTime to
\* clamp(t, 0, duration) and leaves isPlaying and duration unchanged.  So
\* when session u1 has sent video:play (or video:pause) and then
\* video:seek t, neither was rate limited, nothing else has touched the
\* video and both handlers have finished, the room is playing (or paused)
\* at the clamped target, and the room was sent video:state.
C13_SeekSetsPosition ==
  \A time \in SeekTimes :
    \A ctl \in {"video:play", "video:pause"} :
      (/\ obs.videoLog = <<<<"u1", ctl, <<>>>>,
                           <<"u1", "video:seek", <<time>>>>>>
       /\ obs.denied = <<>>
       /\ Inflight = 0)
        => /\ SoughtTo(time, ctl = "video:play")
           /\ obs.bcast[MsgRoom] = 2

\* The position one tick later: elapsed wall time added, or the restart
\* from 0 when the end of the video is reached.
TickPosition(p, elapsed, duration) ==
  IF p + elapsed >= duration * 1000 THEN 0 ELSE p + elapsed

\* C14: while a room plays with no control event, a tick broadcast
\* computed at t2 after the newest earlier broadcast, computed at t1 < t2,
\* carries a position that differs by at most one tick interval from the
\* position of that broadcast plus t2 - t1 (0 when the video wrapped); also
\* when several instances tick the same room.
C14_TickRate ==
  [][\A r \in Rooms :
       (obs'.bcast[r] # obs.bcast[r] /\ IsSome(obs.newest[r])) =>
         LET a == The(obs.newest[r])
             b == The(obs'.videoState[r])
             p == TickPosition(a.currentTime,
                               b.lastUpdateTime - a.lastUpdateTime,
                               a.duration)
         IN (a.isPlaying /\ b.isPlaying
             /\ a.lastUpdateTime < b.lastUpdateTime)
              => /\ b.currentTime - p <= StepMs
                 /\ p - b.currentTime <= StepMs]_vars

\* The room's entry in the listing getAllRooms reads.
Listed(k, l, r) == IF redisUp THEN k.all[r] ELSE l.rooms[r]

\* C15: at the moment the sweep removes a room from the listing, the room
\* has no member and is older than 60 s; a room with a member is never
\* deleted, also when a join runs concurrently with the sweep.
C15_SweepDeletesOnlyEmptyOld ==
  [][\A r \in Rooms :
       (IsSome(Listed(kv, loc, r)) /\ ~IsSome(Listed(kv', loc', r)))
         => /\ getRoomUsers(World, r) = {}
            /\ ReapAge(The(Listed(kv, loc, r)), now)]_vars

\* Session s joined room r, creating it, and has disconnected; its
\* handlers have finished, the room has no member and is older than 60 s.
LeftEmpty(s, r) ==
  /\ sock[s].st = "closed"
  /\ TasksOf(s) = {}
  /\ IsSome(Listed(kv, loc, r))
  /\ The(Listed(kv, loc, r)).createdBy = s
  /\ getRoomUsers(World, r) = {}
  /\ ReapAge(The(Listed(kv, loc, r)), now)

\* C16: if a session joins a room and then disconnects, leaving the room
\* with no member, then, the reap timer firing again and again, the room is
\* eventually, once it is older than 60 s, no longer listed by getAllRooms.
C16_EmptyRoomReaped ==
  \A s \in Lifecycle, r \in Rooms :
    LeftEmpty(s, r) ~> ~IsSome(Listed(kv, loc, r))

\* The room:join handler at the head of instance i returns from joinRoom
\* after it left one room and joined another.
SwitchDone(i) ==
  /\ pend[i] # <<>>
  /\ Resumed(i)
  /\ Head(pend[i]).kind = "room:join"
  /\ Head(pend[i]).pc = "jn_getUsers"
  /\ Head(pend[i]).lroom \notin {Null, Head(pend[i]).room}

\* C17: when the handler of a room:join r2 sent by a member of r1
\* completes, currentRoom = r2, the user is in r2's membership and not in
\* r1's.
C17_RoomSwitch ==
  [][\A i \in Instances :
       SwitchDone(i) =>
         LET t == Head(pend[i]) IN
         /\ sock'[t.sid].currentRoom = t.room
         /\ t.sid \in getRoomUsers([World EXCEPT !.kv = kv', !.loc = loc'],
                                    t.room)
         /\ t.sid \notin getRoomUsers([World EXCEPT !.kv = kv', !.loc = loc'],
                                       t.lroom)]_vars

\* C18: of the messages emitted to a connection, user:self comes before
\* every room:joined, and the users list of every room:joined contains
\* the joining user itself.
C18_JoinedListsSelf ==
  \A s \in Sessions :
    \A k \in 1..Len(obs.toSock[s]) :
      obs.toSock[s][k].ev = "room:joined"
        => /\ obs.toSock[s][1].ev = "user:self"
           /\ s \in obs.toSock[s][k].users

\* The admitted attempts of address ip at instance i that an attempt at
\* time t finds within the preceding 60 s.
Preceding(i, ip, t) == Len(Recent(obs.admitted[i][ip], t))

\* The admitted attempts in the 60 s that begin with the k-th one.
AdmittedFrom(h, k) ==
  Cardinality({j \in 1..Len(h) : h[k] <= h[j] /\ h[j] < h[k] + ConnWindowMs})

\* C19: at every hub instance and for every address, an attempt is
\* admitted iff fewer than 20 attempts of the address were admitted within
\* the preceding 60 s; so in any 60 s at most 20 are admitted, and the
\* address is admitted again once enough admitted attempts are 60 s old.
C19_AdmitIffBelowThreshold ==
  /\ [](\A i \in Instances, ip \in Addresses :
          \A k \in 1..Len(obs.admitted[i][ip]) :
             AdmittedFrom(obs.admitted[i][ip], k) <= ConnLimit)
  /\ [][\A i \in Instances, ip \in Addresses :
          /\ obs'.admitted[i][ip] # obs.admitted[i][ip]
                => Preceding(i, ip, now) < ConnLimit
          /\ obs'.rejected[i][ip] # obs.rejected[i][ip]
                => Preceding(i, ip, now) >= ConnLimit]_vars

\* C19 witness: address ip1 was rejected at instance i1 with 20 admitted
\* attempts behind it, and admitted again later.
C19_Witness ==
  /\ obs.rejected["i1"]["ip1"] > 0
  /\ Len(obs.admitted["i1"]["ip1"]) > ConnLimit
  /\ obs.admitted["i1"]["ip1"][ConnLimit + 1] >= ConnWindowMs

\* The connection of session s is rejected by the gate in this step.
Rejected(s) ==
  /\ sock[s].st = "new"
  /\ sock'[s].st # "new"
  /\ obs'.rejected[InstOf(s, redisUp)][ClientIP(s)]
       # obs.rejected[InstOf(s, redisUp)][ClientIP(s)]

\* C20: a connection rejected by the gate is closed and nothing else
\* happens: no user:self and no room:joined is emitted to it, no handler
\* runs for it, and no room, membership entry or rate-limit counter is
\* written.
C20_RejectedHasNoEffect ==
  [][\A s \in Sessions :
       Rejected(s) =>
         /\ sock'[s] = [NoSock EXCEPT !.st = "closed"]
         /\ obs'.toSock = obs.toSock
         /\ pend' = pend
         /\ kv' = kv
         /\ loc' = loc]_vars

\* C20 witness: the connection of u1 was rejected, that of u2 was
\* admitted.
C20_Witness ==
  /\ obs.rejected["i1"]["ip1"] > 0
  /\ sock["u1"].st = "closed"
  /\ sock["u2"].st = "open"

\* How often x occurs in the sequence q.
Count(q, x) == Cardinality({k \in DOMAIN q : q[k] = x})

\* How often reaction x waits for room r in the accumulators of the hubs.
Batched(h, r, x) ==
  SumLen([i \in Instances |->
            SelectSeq(h[i].reactionBatches[r], LAMBDA y : y = x)], Instances)

\* C21: every accepted reaction waits in the accumulator of its room until
\* the next reaction flush of its instance, which broadcasts it in the
\* reactions:batch of that room and empties the accumulators: at any time
\* the reaction either waits once and was never broadcast, or was broadcast
\* exactly once, to its room, and waits no more.
C21_ReactionInOneBatch ==
  /\ [](\A k \in DOMAIN obs.reacted :
          LET e == obs.reacted[k] IN
          /\ Batched(hub, e.roomId, e.reaction)
               + Count(obs.reactionsOut[e.roomId], e.reaction) = 1
          /\ \A r \in Rooms \ {e.roomId} :
               /\ Batched(hub, r, e.reaction) = 0
               /\ Count(obs.reactionsOut[r], e.reaction) = 0)
  /\ [][obs'.reactionFlushes # obs.reactionFlushes =>
          \A i \in Instances :
            hub'[i].reactionBatches # hub[i].reactionBatches =>
              \A r \in Rooms :
                /\ hub'[i].reactionBatches[r] = <<>>
                /\ Len(hub[i].reactionBatches[r]) > 0 =>
                     obs'.reactionsBatch[r] = hub[i].reactionBatches[r]]_vars

\* C21 witness: two reactions of u1 were accepted and broadcast, in two
\* batches or together in one.
C21_Witness ==
  /\ Len(obs.reacted) = 2
  /\ Len(obs.reactionsOut[MsgRoom]) = 2
  /\ \A i \in Instances : hub[i].reactionBatches[MsgRoom] = <<>>

\* The cursor:move messages of u1 are all that happened to room MsgRoom:
\* u1 has sent some and u2 none, none was denied, no room:join was sent,
\* every handler has finished and every accumulator was flushed.
CursorsSettled ==
  /\ IsSome(obs.cursorSent["u1"])
  /\ obs.cursorSent["u2"] = None
  /\ obs.denied = <<>>
  /\ sock["u1"] = JoinedSock
  /\ (IF redisUp THEN kv.rate["roomJoin"]["u1"].count
      ELSE loc.buckets["roomJoin"]["u1"].count) = 1
  /\ Inflight = 0
  /\ \A i \in Instances : hub[i].cursorBatches[MsgRoom] = <<>>

\* C22: once a sequence of cursor:move messages of u1, all within the
\* cursor cap, has been handled and flushed, the last cursors:batch sent to
\* the room carries the position of the last message u1 sent.
C22_LastBatchHasFinal ==
  CursorsSettled =>
    \E k \in DOMAIN obs.cursorsBatch[MsgRoom] :
      LET e == obs.cursorsBatch[MsgRoom][k] IN
      e.userId = "u1" /\ <<e.x, e.y>> = The(obs.cursorSent["u1"])

\* C23: the step in which a video:play, video:pause, video:seek,
\* cursor:move, reaction:send or heartbeat arrives from a session whose
\* currentRoom is null changes nothing: no store entry (video state,
\* membership, cursor hash, rate-limit counter), no accumulator, no
\* session, nothing is emitted or broadcast and no handler stays pending.
C23_NoRoomIsDropped ==
  [][(/\ Len(obs'.received) > Len(obs.received)
      /\ obs'.received[Len(obs'.received)][3] = Null)
       => /\ kv' = kv
          /\ loc' = loc
          /\ hub' = hub
          /\ sock' = sock
          /\ pend' = pend
          /\ obs' = [obs EXCEPT !.received = obs'.received]]_vars

\* C23 witness: a heartbeat, a cursor:move and a video:play have arrived
\* from u1 while its currentRoom was null.
C23_Witness ==
  \E a, b, c \in DOMAIN obs.received :
    /\ a < b /\ b < c
    /\ \A k \in {a, b, c} : obs.received[k][1] = "u1" /\ obs.received[k][3] = Null
    /\ obs.received[a][2] = "heartbeat"
    /\ obs.received[b][2] = "cursor:move"
    /\ obs.received[c][2] = "video:play"

\* C24: when an instance has shut down, every cursor update and every
\* reaction it had accepted has been broadcast (none is left in its
\* accumulators), and none of its sessions is a member of any room.
C24_ShutdownFlushesAndCleans ==
  \A i \in Instances :
    hub[i].phase = "down" =>
      /\ \A r \in Rooms :
           /\ hub[i].cursorBatches[r] = <<>>
           /\ hub[i].reactionBatches[r] = <<>>
      /\ \A s \in Sessions, r \in Rooms :
           InstOf(s, redisUp) = i => ~Member(s, r)

\* The entry of room r that command c of deleteRoom removes is absent.
Removed(c, r) ==
  CASE c = "dl_all" -> kv.all[r] = None
    [] c = "dl_meta" -> kv.meta[r] = None
    [] c = "dl_users" -> kv.users[r] = {}
    [] c = "dl_video" -> kv.video[r] = None
    [] c = "dl_cursors" -> \A u \in Sessions : kv.cursors[r][u] = None

\* C25: when one of the five removals of a deleteRoom(r) has failed, and
\* no write to r took effect since the deleteRoom was called, the other
\* four entries of r are removed.
C25_DeleteRoomBestEffort ==
  \A r \in Rooms :
    obs.deleted[r] = "failed" =>
      \A c \in DeleteCommands \ {obs.failedAt[r]} : Removed(c, r)

\* C26: every response of GET and POST /time that carries the timestamps
\* has serverReceiveTime <= serverSendTime and serverProcessingTime =
\* serverSendTime - serverReceiveTime >= 0; a POST response carries the
\* clientSendTime of its request, or none if the request had none; and the
\* step that answers a request changes nothing of the hub but the request
\* it answers.
C26_TimeExchange ==
  /\ [](\A k \in DOMAIN obs.responses :
          LET r == obs.responses[k].response
              b == obs.responses[k].body
          IN r.status = 200 =>
               /\ r.serverReceiveTime <= r.serverSendTime
               /\ r.serverProcessingTime
                    = r.serverSendTime - r.serverReceiveTime
               /\ r.serverProcessingTime >= 0
               /\ r.method = "POST" =>
                    r.clientSendTime = IF b.has THEN Some(b.clientSendTime)
                                       ELSE None)
  /\ [][Len(obs'.responses) > Len(obs.responses) =>
          /\ kv' = kv /\ loc' = loc /\ sock' = sock /\ pend' = pend
          /\ \A i \in Instances :
               hub'[i] = [hub[i] EXCEPT !.posts = hub'[i].posts]
          /\ obs' = [obs EXCEPT !.responses = obs'.responses]]_vars

\* C26 witness: while a session is connected, a GET and a POST with
\* clientSendTime 1000 were answered, the POST after time had passed
\* between its two clock readings.
C26_Witness ==
  /\ \E s \in Sessions : sock[s].st = "open"
  /\ \E j, k \in DOMAIN obs.responses :
       /\ obs.responses[j].response.method = "GET"
       /\ obs.responses[k].response.method = "POST"
       /\ obs.responses[k].response.clientSendTime = Some(1000)
       /\ obs.responses[k].response.serverProcessingTime > 0

\* The user id of session s: the one its user:self message carried.
UserIdOf(s) ==
  LET m == SelectSeq(obs.toSock[s], LAMBDA e : e.ev = "user:self")
  IN IF m = <<>> THEN {} ELSE m[Len(m)].users

\* C27: no two sessions that are connected at the same time have the same
\* user id.
C27_UserIdsDistinct ==
  \A s1, s2 \in Sessions :
    (s1 # s2 /\ sock[s1].st = "open" /\ sock[s2].st = "open")
      => UserIdOf(s1) \cap UserIdOf(s2) = {}

\* getRoomCursors(r) maps u to the cursor of the last updateCursor(r, u, c)
\* that has returned with no removal of it since.
CursorsKept ==
  \A r \in Rooms, u \in Sessions :
    IsSome(obs.cursorOf[r][u])
      => getRoomCursors(World, r)[u] = obs.cursorOf[r][u]

C29_DeniedJoinKeepsRoom ==
  \A s \in Sessions :
    (/\ \E k \in DOMAIN obs.denied : obs.denied[k] = <<s, "room:join">>
     /\ TasksOf(s) = {})
      => /\ sock[s].currentRoom = MsgRoom
         /\ Member(s, MsgRoom)

\* C30: while a room is paused at position p (a video:pause has written p
\* and no video:play or video:seek has written since), its persisted
\* currentTime is p, whatever ticks and time have passed; and the
\* video:play that resumes it writes currentTime p.
C30_PausedTimeNotCounted ==
  \A r \in Rooms :
    /\ IsSome(obs.pausedAt[r]) =>
         /\ IsSome(Persisted(kv, loc, r))
         /\ The(Persisted(kv, loc, r)).currentTime = The(obs.pausedAt[r])
    /\ IsSome(obs.resumed[r]) =>
         The(obs.resumed[r])[1] = The(obs.resumed[r])[2]

\* A video:play handler has been started and has not finished.
PlayInFlight ==
  \E i \in Instances : \E k \in 1..Len(pend[i]) : pend[i][k].kind = "video:play"

\* C31: once a video:pause of room r has been processed and no video:play
\* is processed after it (none finished since, none in flight), the
\* persisted video state of r and the last video:state broadcast to r have
\* isPlaying = FALSE, whatever tick or other handler overlapped the pause.
C31_PauseNotLost ==
  \A r \in Rooms :
    (obs.pausedLast[r] /\ ~PlayInFlight) =>
      /\ IsSome(Persisted(kv, loc, r)) => ~The(Persisted(kv, loc, r)).isPlaying
      /\ IsSome(obs.videoState[r]) => ~The(obs.videoState[r]).isPlaying

\* C32: in every reachable state each user id is in the membership hash of
\* at most one room, also when the handlers of several room:join messages
\* of one session overlap.
C32_MemberOfOneRoom ==
  \A s \in Sessions : Cardinality({r \in Rooms : Member(s, r)}) <= 1

\* Room r's persisted cursor hash has no entry for a user who has left r.
NoCursorOfLeft ==
  \A r \in Rooms : \A u \in Sessions :
    (obs.left[r][u] /\ redisUp) => kv.cursors[r][u] = None

\* A cursors:batch emitted to r carries no cursor of a user who had left r.
NoBatchOfLeft ==
  \A r \in Rooms : \A u \in Sessions : \A i \in Instances :
    (/\ obs.left[r][u]
     /\ obs'.flushes # obs.flushes
     /\ hub'[i].cursorBatches # hub[i].cursorBatches
     /\ Len(hub[i].cursorBatches[r]) > 0)
      => \A k \in DOMAIN obs'.cursorsBatch[r] :
            obs'.cursorsBatch[r][k].userId # u

\* C33: once leaveRoom(r) of a user has completed, no later cursors:batch
\* to r contains a cursor of that user and r's persisted cursor hash has
\* no entry for the user, also for cursor:move messages batched before the
\* leave or handled while it ran.
C33_NoCursorAfterLeave == []NoCursorOfLeft /\ [][NoBatchOfLeft]_vars

\* One step of the KV counter c of action a: a key with a TTL keeps it
\* while it is counted up; a key without one gets ceil(windowMs/1000) s;
\* a key whose TTL has run out starts again at 1.
KvWindowKept(a, c, c2) ==
  c2 # c =>
    IF ~KeyLive(c, now) THEN c2 = [count |-> 1, exp |-> NoTTL]
    ELSE IF c.exp # NoTTL THEN c2 = [c EXCEPT !.count = c.count + 1]
    ELSE \/ c2 = [c EXCEPT !.count = c.count + 1]
         \/ c2 = [c EXCEPT !.exp = now + WindowSeconds(a) * 1000]

\* One step of the local bucket b of action a: resetAt is that of the
\* first increment of the window until now is past it.
LocalWindowKept(a, b, b2) ==
  b2 # b =>
    IF b.count = 0 \/ now > b.resetAt
    THEN b2 = [count |-> 1, resetAt |-> now + LIMITS[a].windowMs]
    ELSE b2 = [b EXCEPT !.count = b.count + 1]

\* C34: the expiry of a rate-limit window is set once, for the window's
\* first increment (TTL ceil(windowMs/1000) s on the KV path, resetAt =
\* first increment + windowMs locally); later increments, of allowed and
\* of denied calls alike, leave it unchanged, and the first call after the
\* expiry counts 1 again.
C34_WindowNotExtended ==
  [][\A a \in Actions : \A u \in Sessions :
       /\ KvWindowKept(a, kv.rate[a][u], kv.rate'[a][u])
       /\ LocalWindowKept(a, loc.buckets[a][u], loc.buckets'[a][u])]_vars

\* C34 witness: seven reactions were sent without the store being down,
\* six of them in the window that opened at 0, so that the sixth was
\* denied, and the seventh, sent when the window's TTL of 1 s had run out,
\* counts 1.
C34_Witness ==
  /\ redisUp
  /\ obs.probe = "reaction"
  /\ now = 2 * HalfWindow("reaction")
  /\ budget = MaxCalls - 9
  /\ kv.rate["reaction"]["u1"].count = 1
  /\ Inflight = 0

\* The EXPIRE of the counter of action a and user u is on its way.
ExpirePending(a, u) ==
  \E i \in Instances : \E k \in 1..Len(pend[i]) :
    /\ pend[i][k].pc = "rl_expire"
    /\ pend[i][k].sid = u
    /\ ActionOf(pend[i][k].kind) = a

\* C35: on the KV path every rate-limit counter key that exists carries a
\* TTL, or the EXPIRE that follows its first INCR is still on its way:
\* nothing between the two commands leaves a counter without expiry.
C35_CounterHasTTL ==
  redisUp =>
    \A a \in Actions : \A u \in Sessions :
      (KeyLive(kv.rate[a][u], now) /\ kv.rate[a][u].exp = NoTTL)
        => ExpirePending(a, u)

\* C36: connected to the KV store, a room id is listed by getAllRooms()
\* iff getRoom(id) returns a room, also once the TTL of room:{id}:meta has
\* run out and between the two writes of createRoom.
C36_ListingMatchesMeta ==
  redisUp =>
    \A r \in Rooms : (r \in getAllRooms(World)) <=> IsSome(getRoom(World, r))

\* C37: once startup has completed, getRoom(main-lobby) returns the room
\* ensureDefaultRoom created (createdBy system, name Main Lobby, maxUsers
\* 100000), whatever the empty-room reap and later joins do.
C37_DefaultRoomStays ==
  LET room == getRoom(World, DEFAULT_ROOM_ID) IN
  /\ IsSome(room)
  /\ The(room).createdBy = "system"
  /\ The(room).name = "Main Lobby"
  /\ The(room).maxUsers = LobbyMaxUsers

\* C38: in every reachable state the number of members of an existing room
\* is at most the room's maxUsers.
C38_MembersWithinMaxUsers ==
  \A r \in Rooms :
    IsSome(getRoom(World, r)) =>
      getRoomUserCount(World, r) <= The(getRoom(World, r)).maxUsers

\* The head task of instance i, a handler of one of the five room-scoped
\* messages, is resumed in this step.
ScopedHandlerRuns(i) ==
  /\ pend[i] # <<>>
  /\ Head(pend[i]).kind \in DroppedKinds
  /\ pend'[i] # pend[i]
  /\ budget' = budget

\* Room r's video state, cursor hash and batches are as before the step.
RoomDataKept(r) ==
  /\ Persisted(kv', loc', r) = Persisted(kv, loc, r)
  /\ kv'.cursors[r] = kv.cursors[r]
  /\ \A j \in Instances :
       /\ hub'[j].cursorBatches[r] = hub[j].cursorBatches[r]
       /\ hub'[j].reactionBatches[r] = hub[j].reactionBatches[r]

\* A handler started in room A changes the data of A only.
EffectsStayInRoom ==
  \A i \in Instances :
    ScopedHandlerRuns(i) =>
      \A r \in Rooms \ {Head(pend[i]).room} : RoomDataKept(r)

\* The socket.io rooms a connected session's socket is in, to which room
\* broadcasts are delivered, are its current room at most.
ReceivesOwnRoomOnly ==
  \A s \in Sessions :
    sock[s].st = "open" => sock[s].io \subseteq {sock[s].currentRoom}

\* C39: a video:play, video:pause, video:seek, cursor:move or
\* reaction:send handled for a session in room A changes only A's video
\* state, cursor hash and batches, and a session's socket receives the
\* broadcasts of no room but its current room.
C39_RoomScoped == []ReceivesOwnRoomOnly /\ [][EffectsStayInRoom]_vars

\* C40: a finished measurement has offset = ((T2 - T1) + (T3 - T4))/2 and
\* rtt = (T4 - T1) - (T3 - T2) for the four clock readings of the
\* exchange; when the request and the response travelled equally long,
\* the offset is the server clock minus the client clock exactly and rtt
\* is the sum of the two delays, whatever the server's processing time.
C40_SyncMeasurement ==
  LET m == The(obs.measure) IN
  (IsSome(obs.measure) /\ m.phase = "done") =>
    LET t4 == now - m.theta IN
    /\ m.result.offsetTimes2 = (m.received - m.t1) + (m.sent - t4)
    /\ m.result.roundTripTime = (t4 - m.t1) - (m.sent - m.received)
    /\ m.d1 = m.d2 =>
         /\ m.result.offsetTimes2 = 2 * m.theta
         /\ m.result.roundTripTime = m.d1 + m.d2

\* C40 witness: a measurement with equal delays of 20 ms, a server that
\* took 3 ms and a client clock 300 ms ahead has finished.
C40_Witness ==
  /\ IsSome(obs.measure)
  /\ The(obs.measure).phase = "done"
  /\ The(obs.measure).d1 = 20
  /\ The(obs.measure).d2 = 20
  /\ The(obs.measure).p = 3
  /\ The(obs.measure).theta = 0 - 300

\* C9 witness: a deleteRoom of the message room was overtaken by a write,
\* and a later one completed undisturbed.
C9_Witness ==
  /\ obs.deleted[MsgRoom] = "done"
  /\ obs.epoch[MsgRoom] > 0

====
